---- MODULE Spec2Model ----
(***************************************************************************)
(* Model of subtitle-translator-ai: the batcher (batchSubtitles), the      *)
(* response parser of the remote providers (parseTranslations), the retry  *)
(* executor (fetchWithRetry), the merge loop of the translate and batch    *)
(* commands, the provider factory (createProvider) with the Whisper        *)
(* provider, and the subtitle codec (parse, serialize).                    *)
(*                                                                         *)
(* Strings are sequences of one-character strings, so that length, trim,   *)
(* split, substring search and the regular expression of the parser are    *)
(* computed and not assumed.                                               *)
(***************************************************************************)
EXTENDS Integers, Sequences, FiniteSets, TLC

VARIABLES
    \* ---- batchSubtitles (subtitles.ts) ----
    subtitles,      \* the parsed caption sequence handed to batchSubtitles
    batchSize,      \* parameter batchSize
    maxChars,       \* parameter maxChars
    bpc,            \* position in batchSubtitles: "loop" | "done"
    bpos,           \* number of captions the for..of loop has consumed
    batches,        \* local: batches
    currentBatch,   \* local: currentBatch
    currentChars,   \* local: currentChars
    \* ---- parseTranslations (providers/anthropic.ts, translator.ts) ----
    batch,          \* the captions of the batch being translated
    translatedText, \* data.content[0]?.text || ''
    ppc,            \* position in the parser: "split" | "lines" | "fill" | "done"
    lines,          \* local: lines
    lpos,           \* number of response lines consumed
    lineMap,        \* local: lineMap (a Map<number, string>)
    translatedLines,\* local: translatedLines (the value returned)
    \* ---- fetchWithRetry (providers/anthropic.ts, translator.ts) ----
    maxRetries,     \* parameter maxRetries
    baseDelay,      \* parameter baseDelay
    rpc,            \* position: "loop" | "sleep" | "exit" | "returned" | "thrown"
    attempt,        \* loop variable attempt
    lastError,      \* local: lastError (its message)
    calls,          \* history: number of invocations of fn
    retries,        \* stats.retries, incremented by the onRetry callback
    sleeps,         \* history: the durations passed to sleep, in order
    thrown,         \* the error fetchWithRetry has thrown (<<>>: none)
    lastStatus,     \* history: HTTP status of the last attempt (0: no response)
    allRetryable,   \* history: every attempt so far failed with a retryable error
    lastAttemptErr, \* history: the error thrown by the most recent attempt of fn
    \* ---- translate action and batch job body (cli.ts) ----
    mode,           \* "translate" (translate command) | "batchjob" (one job of batch)
    mpc,            \* position: "idle" | "parsed" | "batching" | "loop" | "await" |
                    \*           "delay" | "written" | "failed"
    mi,             \* loop variable i (b in the batch command)
    translatedSubtitles, \* local: translatedSubtitles
    returned,       \* history: the lists translateBatch has returned, in order
    requests,       \* history: number of translateBatch calls issued
    rejected,       \* history: number of translateBatch calls that threw
    delays,         \* history: number of inter-batch delays started
    written,        \* the captions serialized into the output file (<<>>: no file)
    \* ---- createProvider (providers/index.ts) and the provider it returns ----
    explicitProvider, \* options.provider
    explicitKey,    \* options.apiKey
    env,            \* process.env, restricted to the variables of PROVIDERS
    targetLang,     \* options.targetLang
    cpc,            \* position: "idle" | "start" | "selected" | "validated" |
                    \*           "constructed" | "error"
    providerName,   \* local: providerName
    apiKey,         \* local: apiKey
    createError,    \* message of the error createProvider threw (<<>>: none)
    constructs,     \* history: number of provider constructors entered
    netRequests,    \* history: number of network requests made
    stats,          \* the statistics of the constructed provider
    tcalls,         \* history: number of translateBatch invocations
    tthrown,        \* history: number of translateBatch invocations that threw
    \* ---- serialize and parse (subtitles.ts) ----
    format,         \* the SubtitleFormat: "srt" | "vtt" | "ass"
    captions,       \* the argument of serialize (the captions parsed from a file)
    content,        \* the text of a file, as the lines between its line feeds
    parsed,         \* the result of parse
    kpc,            \* position: "idle" | "captions" | "content" | "parsed"
    fromSerialize,  \* history: content was produced by serialize
    \* ---- the batch command (cli.ts) ----
    jobCount,       \* batchConfig.jobs.length
    ji,             \* loop variable i of the job loop
    jpc,            \* position in the run: "idle" | "next" | "running" | "summary"
    completed,      \* local: completed
    failed,         \* local: failed
    outcomes,       \* history: how each job that was attempted ended
    \* ---- the statistics of a provider (providers/anthropic.ts) ----
    spc,            \* "idle" | "ready" (no call in progress) | "call" (in translateBatch)
    snapshot,       \* the object the last getStats returned
    statsAtCall,    \* history: stats when the last translateBatch was entered
    attemptsMade,   \* history: the attempts the last translateBatch made
    lastUsage,      \* history: data.usage of the last response received
    lastOp          \* history: the last operation on the provider

batchVars == <<subtitles, batchSize, maxChars, bpc, bpos, batches, currentBatch, currentChars>>
parseVars == <<batch, translatedText, ppc, lines, lpos, lineMap, translatedLines>>
retryVars == <<maxRetries, baseDelay, rpc, attempt, lastError, calls, retries, sleeps,
               thrown, lastStatus, allRetryable, lastAttemptErr>>
mergeVars == <<mode, mpc, mi, translatedSubtitles, returned, requests, rejected, delays, written>>
provVars == <<explicitProvider, explicitKey, env, targetLang, cpc, providerName, apiKey,
              createError, constructs, netRequests, stats, tcalls, tthrown>>
codecVars == <<format, captions, content, parsed, kpc, fromSerialize>>
jobsVars == <<jobCount, ji, jpc, completed, failed, outcomes>>
statVars == <<spc, snapshot, statsAtCall, attemptsMade, lastUsage, lastOp>>
vars == <<batchVars, parseVars, retryVars, mergeVars, provVars, codecVars,
         jobsVars,
         statVars>>

----------------------------------------------------------------------------
(* Bounds *)

MaxSubs == 3        \* longest caption sequence handed to the batcher
MaxTextLen == 3     \* longest caption text, in characters
MaxBatchSize == 3   \* largest batchSize tried
MaxMaxChars == 3    \* largest maxChars tried
MaxBatch == 3       \* most captions in a batch handed to translateBatch
MaxLines == 2       \* most lines in a provider response
MaxNum == 3         \* largest number written in a response line
MaxRetriesTried == 3 \* largest maxRetries tried
MaxMergeSubs == 5    \* longest caption sequence of a translated file
MaxProviderCalls == 2 \* most translateBatch invocations on a provider
MaxBlocks == 3       \* most blocks or events in a file that is parsed
MaxJobs == 2         \* most jobs in a batch configuration
MaxStatRetries == 1  \* largest maxRetries of a provider whose statistics are followed

----------------------------------------------------------------------------
(* Strings *)

RECURSIVE Repeat(_, _)
Repeat(c, n) == IF n <= 0 THEN <<>> ELSE <<c>> \o Repeat(c, n - 1)

DigitChars == <<"0", "1", "2", "3", "4", "5", "6", "7", "8", "9">>

IsDigit(c) == \E i \in 1..10 : DigitChars[i] = c

DigitVal(c) == (CHOOSE i \in 1..10 : DigitChars[i] = c) - 1

----------------------------------------------------------------------------
(* batchSubtitles *)

\* A caption. Its text is "x" repeated: the batcher reads only text.length.
Subtitle(i, len) == [index |-> i, text |-> Repeat("x", len)]

SubtitleSeqs ==
    UNION { { [i \in 1..n |-> Subtitle(i, f[i])] : f \in [1..n -> 0..MaxTextLen] }
            : n \in 0..MaxSubs }

BatchIdle ==
    /\ subtitles = <<>>
    /\ batchSize = 1
    /\ maxChars = 0
    /\ bpc = "done"
    /\ bpos = 0
    /\ batches = <<>>
    /\ currentBatch = <<>>
    /\ currentChars = 0

\* batchSubtitles(subtitles, batchSize, maxChars) has just been entered.
BatchInit ==
    /\ subtitles \in SubtitleSeqs
    /\ batchSize \in 1..MaxBatchSize
    /\ maxChars \in 0..MaxMaxChars
    /\ bpc = "loop"
    /\ bpos = 0
    /\ batches = <<>>
    /\ currentBatch = <<>>
    /\ currentChars = 0

\* Variant: the count test lets one caption too many in.
ShouldClose_Gt(curLen, curChars, textLength) ==
    \/ curLen > batchSize
    \/ (curChars + textLength > maxChars /\ curLen > 0)

\* Variant: the character test ignores the caption about to be added.
ShouldClose_NoLookahead(curLen, curChars, textLength) ==
    \/ curLen >= batchSize
    \/ (curChars > maxChars /\ curLen > 0)

\* The condition that closes the current batch before a caption is added.
ShouldClose(curLen, curChars, textLength) ==
    \/ curLen >= batchSize
    \/ (curChars + textLength > maxChars /\ curLen > 0)

\* Variant: the caption that closes a batch is not added to the next one.
BatchIter_DropOnClose ==
    /\ bpc = "loop"
    /\ bpos < Len(subtitles)
    /\ LET subtitle == subtitles[bpos + 1]
           textLength == Len(subtitle.text)
           close == ShouldClose(Len(currentBatch), currentChars, textLength)
       IN  /\ batches' = IF close THEN Append(batches, currentBatch) ELSE batches
           /\ currentBatch' = IF close THEN <<>> ELSE Append(currentBatch, subtitle)
           /\ currentChars' = IF close THEN 0 ELSE currentChars + textLength
    /\ bpos' = bpos + 1
    /\ UNCHANGED <<subtitles, batchSize, maxChars, bpc>>

\* One iteration of the for..of loop.
BatchIter ==
    /\ bpc = "loop"
    /\ bpos < Len(subtitles)
    /\ LET subtitle == subtitles[bpos + 1]
           textLength == Len(subtitle.text)
           close == ShouldClose(Len(currentBatch), currentChars, textLength)
           cb == IF close THEN <<>> ELSE currentBatch
           cc == IF close THEN 0 ELSE currentChars
       IN  /\ batches' = IF close THEN Append(batches, currentBatch) ELSE batches
           /\ currentBatch' = Append(cb, subtitle)
           /\ currentChars' = cc + textLength
    /\ bpos' = bpos + 1
    /\ UNCHANGED <<subtitles, batchSize, maxChars, bpc>>

\* The loop is over: push the last batch if it is not empty, and return.
BatchReturn ==
    /\ bpc = "loop"
    /\ bpos = Len(subtitles)
    /\ batches' = IF Len(currentBatch) > 0 THEN Append(batches, currentBatch) ELSE batches
    /\ bpc' = "done"
    /\ UNCHANGED <<subtitles, batchSize, maxChars, bpos, currentBatch, currentChars>>

----------------------------------------------------------------------------
(* parseTranslations: the response parser of the remote providers.         *)
(* createTranslator.translateBatch (translator.ts) inlines the same code.  *)

IsSpace(c) == c \in {" ", "\t", "\n", "\r"}

IsLineTerminator(c) == c \in {"\n", "\r"}

\* String.prototype.trim
RECURSIVE TrimStart(_)
TrimStart(s) == IF s # <<>> /\ IsSpace(Head(s)) THEN TrimStart(Tail(s)) ELSE s

RECURSIVE TrimEnd(_)
TrimEnd(s) ==
    IF s # <<>> /\ IsSpace(s[Len(s)]) THEN TrimEnd(SubSeq(s, 1, Len(s) - 1)) ELSE s

Trim(s) == TrimEnd(TrimStart(s))

\* text.split('\n'): always at least one piece, '' splits into [''].
RECURSIVE SplitFrom(_, _, _)
SplitFrom(text, i, cur) ==
    IF i > Len(text) THEN <<cur>>
    ELSE IF text[i] = "\n" THEN <<cur>> \o SplitFrom(text, i + 1, <<>>)
    ELSE SplitFrom(text, i + 1, Append(cur, text[i]))

Split(text) == SplitFrom(text, 1, <<>>)

\* parseInt(digits, 10) of a non-empty run of decimal digits
RECURSIVE ParseInt(_)
ParseInt(ds) ==
    IF ds = <<>> THEN 0
    ELSE ParseInt(SubSeq(ds, 1, Len(ds) - 1)) * 10 + DigitVal(ds[Len(ds)])

\* The index just after the run of digits of s that starts at index i.
RECURSIVE DigitsEnd(_, _)
DigitsEnd(s, i) == IF i <= Len(s) /\ IsDigit(s[i]) THEN DigitsEnd(s, i + 1) ELSE i

\* What \s*(.+)$ captures from the text after "]": \s* is greedy and gives
\* back one character when nothing else is left for (.+).
Group2(rest) ==
    LET t == TrimStart(rest)
    IN  IF t # <<>> THEN t ELSE <<rest[Len(rest)]>>

\* line.match(/^\[(\d+)\]\s*(.+)$/): ok, and the two capture groups.
MatchLine(line) ==
    LET e == DigitsEnd(line, 2)
        shape == /\ Len(line) >= 1
                 /\ line[1] = "["
                 /\ e > 2
                 /\ e < Len(line)
                 /\ line[e] = "]"
        rest == SubSeq(line, e + 1, Len(line))
    IN  IF shape /\ \A k \in 1..Len(Group2(rest)) : ~IsLineTerminator(Group2(rest)[k])
        THEN [ok |-> TRUE, g1 |-> SubSeq(line, 2, e - 1), g2 |-> Group2(rest)]
        ELSE [ok |-> FALSE, g1 |-> <<>>, g2 |-> <<>>]

\* Map.prototype.set
MapSet(m, k, v) == [x \in (DOMAIN m) \cup {k} |-> IF x = k THEN v ELSE m[x]]

\* Map.prototype.size
MapSize(m) == Cardinality(DOMAIN m)

EmptyMap == [x \in {} |-> <<>>]

\* The source text of the i-th caption of a batch (1-based).
SrcText(i) == <<"s", DigitChars[i + 1]>>

Batches == { [i \in 1..n |-> [index |-> i, text |-> SrcText(i)]] : n \in 1..MaxBatch }

RECURSIVE DecStr(_)
DecStr(n) == IF n < 10 THEN <<DigitChars[n + 1]>>
             ELSE DecStr(n \div 10) \o <<DigitChars[(n % 10) + 1]>>

\* The response lines tried: an optional "[n]" followed by one of a few texts.
RestChoices == { <<>>, <<" ">>, <<"a">>, <<" ", "b", " ">> }

LinePrefixes == { <<>> } \cup { <<"[">> \o DecStr(n) \o <<"]">> : n \in 0..MaxNum }

ResponseLines == { p \o r : p \in LinePrefixes, r \in RestChoices }

RECURSIVE Join(_)
Join(ls) == IF ls = <<>> THEN <<>>
            ELSE IF Len(ls) = 1 THEN ls[1]
            ELSE ls[1] \o <<"\n">> \o Join(Tail(ls))

ResponseTexts ==
    UNION { { Join(ls) : ls \in [1..n -> ResponseLines] } : n \in 0..MaxLines }

ParseIdle ==
    /\ batch = <<>>
    /\ translatedText = <<>>
    /\ ppc = "done"
    /\ lines = <<>>
    /\ lpos = 0
    /\ lineMap = EmptyMap
    /\ translatedLines = <<>>

\* translateBatch has received the response: translatedText is
\* data.content[0]?.text || '' and parseTranslations is entered.
ParseInit ==
    /\ batch \in Batches
    /\ translatedText \in ResponseTexts
    /\ ppc = "split"
    /\ lines = <<>>
    /\ lpos = 0
    /\ lineMap = EmptyMap
    /\ translatedLines = <<>>

\* const lineMap = new Map(); const lines = text.split('\n')
ParseSplit ==
    /\ ppc = "split"
    /\ lines' = Split(translatedText)
    /\ lineMap' = EmptyMap
    /\ lpos' = 0
    /\ ppc' = "lines"
    /\ UNCHANGED <<batch, translatedText, translatedLines>>

\* Variant: a numbered line is placed by arrival, like an unnumbered one.
LineMapAfter_ByArrival(m, line, n) ==
    LET match == MatchLine(line)
        cleanLine == Trim(line)
    IN  IF match.ok
        THEN MapSet(m, MapSize(m), Trim(match.g2))
        ELSE IF cleanLine # <<>> /\ MapSize(m) < n
             THEN MapSet(m, MapSize(m), cleanLine)
             ELSE m

\* The body of the loop over the response lines: lineMap after one line.
LineMapAfter(m, line, n) ==
    LET match == MatchLine(line)
        cleanLine == Trim(line)
    IN  IF match.ok
        THEN MapSet(m, ParseInt(match.g1) - 1, Trim(match.g2))
        ELSE IF cleanLine # <<>> /\ MapSize(m) < n
             THEN MapSet(m, MapSize(m), cleanLine)
             ELSE m

\* One iteration of the loop over the response lines.
ParseLine ==
    /\ ppc = "lines"
    /\ lpos < Len(lines)
    /\ lineMap' = LineMapAfter(lineMap, lines[lpos + 1], Len(batch))
    /\ lpos' = lpos + 1
    /\ UNCHANGED <<batch, translatedText, ppc, lines, translatedLines>>

\* The loop over the response lines is over.
ParseLinesEnd ==
    /\ ppc = "lines"
    /\ lpos = Len(lines)
    /\ ppc' = "fill"
    /\ UNCHANGED <<batch, translatedText, lines, lpos, lineMap, translatedLines>>

\* The values of m at keys k..hi, in key order.
RECURSIVE MapValues(_, _, _)
MapValues(m, k, hi) ==
    IF k > hi THEN <<>>
    ELSE (IF k \in DOMAIN m THEN <<m[k]>> ELSE <<>>) \o MapValues(m, k + 1, hi)

\* Variant: the result is the entries of lineMap, not one entry per caption.
FillResult_FromMap(m, subs) == MapValues(m, -1, MaxNum)

\* Variant: an absent entry gives an empty string, not the source text.
FillResult_Blank(m, subs) ==
    [i \in 1..Len(subs) |-> IF (i - 1) \in DOMAIN m THEN m[i - 1] ELSE <<>>]

\* translatedLines.push(lineMap.get(i) || subtitles[i].text), for every i:
\* an absent entry and an empty string both give the source text.
FillResult(m, subs) ==
    [i \in 1..Len(subs) |->
        IF (i - 1) \in DOMAIN m /\ m[i - 1] # <<>> THEN m[i - 1] ELSE subs[i].text]

\* Build translatedLines and return it.
ParseFill ==
    /\ ppc = "fill"
    /\ translatedLines' = FillResult(lineMap, batch)
    /\ ppc' = "done"
    /\ UNCHANGED <<batch, translatedText, lines, lpos, lineMap>>

----------------------------------------------------------------------------
(* fetchWithRetry, as translateBatch calls it: fn is doRequest and onRetry *)
(* increments stats.retries.                                               *)

\* s.includes(pat)
Includes(s, pat) ==
    \E i \in 1..(Len(s) - Len(pat) + 1) : SubSeq(s, i, i + Len(pat) - 1) = pat

\* The classification of the catch block.
IsRetryable(message) ==
    \/ Includes(message, <<"4", "2", "9">>)
    \/ Includes(message, <<"5", "0", "0">>)
    \/ Includes(message, <<"5", "0", "2">>)
    \/ Includes(message, <<"5", "0", "3">>)

\* new Error('Unknown error')
UnknownError == <<"U", "n", "k", "n", "o", "w", "n", " ", "e", "r", "r", "o", "r">>

\* The HTTP statuses a failed request is answered with.
FailStatuses == {400, 401, 404, 429, 500, 502, 503}

\* The response bodies of a failed request (await response.text()).
ErrorBodies ==
    { <<>>,
      <<"b", "a", "d">>,
      <<"m", "a", "x", " ", "5", "0", "0", "0">>,
      <<"r", "e", "q", "_", "4", "2", "9", "f">> }

\* `Anthropic API error ${response.status}: ${error}`
ApiErrorMessage(status, body) ==
    <<"A", "n", "t", "h", "r", "o", "p", "i", "c", " ", "A", "P", "I", " ",
      "e", "r", "r", "o", "r", " ">> \o DecStr(status) \o <<":", " ">> \o body

\* The message of the TypeError of a fetch that got no response.
FetchFailed == <<"f", "e", "t", "c", "h", " ", "f", "a", "i", "l", "e", "d">>

\* What an attempt of doRequest can throw: the error of a response that is
\* not ok, or the error of fetch itself (status 0).
Failures ==
    { [status |-> st, message |-> ApiErrorMessage(st, b)] : st \in FailStatuses, b \in ErrorBodies }
    \cup { [status |-> 0, message |-> FetchFailed] }

BaseDelays == {1, 1000}

RetryIdle ==
    /\ maxRetries = 0
    /\ baseDelay = 1
    /\ rpc = "returned"
    /\ attempt = 1
    /\ lastError = UnknownError
    /\ calls = 0
    /\ retries = 0
    /\ sleeps = <<>>
    /\ thrown = <<>>
    /\ lastStatus = 0
    /\ allRetryable = TRUE
    /\ lastAttemptErr = <<>>

\* fetchWithRetry(doRequest, maxRetries, baseDelay, onRetry) has been entered:
\* let lastError = new Error('Unknown error'); attempt = 1.
RetryInit ==
    /\ maxRetries \in (-1)..MaxRetriesTried
    /\ baseDelay \in BaseDelays
    /\ rpc = "loop"
    /\ attempt = 1
    /\ lastError = UnknownError
    /\ calls = 0
    /\ retries = 0
    /\ sleeps = <<>>
    /\ thrown = <<>>
    /\ lastStatus = 0
    /\ allRetryable = TRUE
    /\ lastAttemptErr = <<>>

\* The attempt of the loop returns: return await fn().
RetryCallOk ==
    /\ rpc = "loop"
    /\ attempt <= maxRetries + 1
    /\ calls' = calls + 1
    /\ lastStatus' = 200
    /\ allRetryable' = FALSE
    /\ lastAttemptErr' = <<>>
    /\ rpc' = "returned"
    /\ UNCHANGED <<maxRetries, baseDelay, attempt, lastError, retries, sleeps, thrown>>

\* Variant: the attempt test is off by one.
BreaksAfter_OffByOne(att, maxR, message) ==
    att >= maxR \/ ~IsRetryable(message)

\* Variant: every error is retried.
BreaksAfter_RetryAll(att, maxR, message) ==
    att > maxR

\* The two breaks of the catch block: no attempt is left, or the error is
\* not retryable.
BreaksAfter(att, maxR, message) ==
    att > maxR \/ ~IsRetryable(message)

\* Variant: the backoff grows linearly with the attempt number.
RetryCallFail_LinearBackoff ==
    /\ rpc = "loop"
    /\ attempt <= maxRetries + 1
    /\ \E f \in Failures :
        /\ calls' = calls + 1
        /\ lastStatus' = f.status
        /\ lastAttemptErr' = f.message
        /\ allRetryable' = (allRetryable /\ IsRetryable(f.message))
        /\ lastError' = f.message
        /\ IF BreaksAfter(attempt, maxRetries, f.message)
           THEN /\ rpc' = "exit"
                /\ UNCHANGED <<retries, sleeps>>
           ELSE /\ retries' = retries + 1
                /\ sleeps' = Append(sleeps, baseDelay * attempt)
                /\ rpc' = "sleep"
    /\ UNCHANGED <<maxRetries, baseDelay, attempt, thrown>>

\* The attempt of the loop throws: the catch block.
RetryCallFail ==
    /\ rpc = "loop"
    /\ attempt <= maxRetries + 1
    /\ \E f \in Failures :
        /\ calls' = calls + 1
        /\ lastStatus' = f.status
        /\ lastAttemptErr' = f.message
        /\ allRetryable' = (allRetryable /\ IsRetryable(f.message))
        /\ lastError' = f.message
        /\ IF BreaksAfter(attempt, maxRetries, f.message)
           THEN /\ rpc' = "exit"
                /\ UNCHANGED <<retries, sleeps>>
           ELSE /\ retries' = retries + 1
                /\ sleeps' = Append(sleeps, baseDelay * (2 ^ (attempt - 1)))
                /\ rpc' = "sleep"
    /\ UNCHANGED <<maxRetries, baseDelay, attempt, thrown>>

\* The backoff sleep ends: attempt++ and the loop goes on.
RetrySleepEnd ==
    /\ rpc = "sleep"
    /\ attempt' = attempt + 1
    /\ rpc' = "loop"
    /\ UNCHANGED <<maxRetries, baseDelay, lastError, calls, retries, sleeps, thrown,
                   lastStatus, allRetryable, lastAttemptErr>>

\* The loop condition attempt <= maxRetries + 1 is false.
RetryLoopEnd ==
    /\ rpc = "loop"
    /\ attempt > maxRetries + 1
    /\ rpc' = "exit"
    /\ UNCHANGED <<maxRetries, baseDelay, attempt, lastError, calls, retries, sleeps,
                   thrown, lastStatus, allRetryable, lastAttemptErr>>

\* throw lastError
RetryThrow ==
    /\ rpc = "exit"
    /\ thrown' = lastError
    /\ rpc' = "thrown"
    /\ UNCHANGED <<maxRetries, baseDelay, attempt, lastError, calls, retries, sleeps,
                   lastStatus, allRetryable, lastAttemptErr>>


----------------------------------------------------------------------------
(* The translate action and the body of a job of the batch command: the    *)
(* captions of a file are batched, translated batch by batch, merged and   *)
(* written. translateBatch is the provider's: it returns one string per    *)
(* caption of the batch, or throws.                                        *)

\* n.toString().padStart(w, '0')
PadStart(digits, w) == Repeat("0", w - Len(digits)) \o digits

\* msToSrtTime
MsToSrtTime(ms) ==
    LET h == ms \div 3600000
        m == (ms % 3600000) \div 60000
        sec == (ms % 60000) \div 1000
        msRemainder == ms % 1000
    IN  PadStart(DecStr(h), 2) \o <<":">> \o PadStart(DecStr(m), 2) \o <<":">>
        \o PadStart(DecStr(sec), 2) \o <<",">> \o PadStart(DecStr(msRemainder), 3)

\* batchSubtitles(subtitles, batchSize): maxChars takes its default.
DefaultMaxChars == 50000

\* The i-th caption of a parsed file. ref stands for the identity of the
\* object, which indexOf compares.
FileCaption(i) ==
    [ref |-> i, index |-> i,
     startTime |-> MsToSrtTime(i * 1500), endTime |-> MsToSrtTime(i * 1500 + 1200),
     text |-> SrcText(i)]

FileCaptions(n) == [i \in 1..n |-> FileCaption(i)]

\* The strings a provider returns for a caption.
Translations == { <<"x">>, <<"y">> }

\* written holds no file, or the one caption sequence that was serialized.
NoOutput == <<>>

MergeIdle ==
    /\ mode = "translate"
    /\ mpc = "idle"
    /\ mi = 0
    /\ translatedSubtitles = <<>>
    /\ returned = <<>>
    /\ requests = 0
    /\ rejected = 0
    /\ delays = 0
    /\ written = NoOutput

\* The file has been read and parsed: const subtitles = parse(content, inputFormat).
\* The batch sizes tried are small ones (the commands use 10 to 500).
MergeInit ==
    /\ mode \in {"translate", "batchjob"}
    /\ mpc = "parsed"
    /\ mi = 0
    /\ translatedSubtitles = <<>>
    /\ returned = <<>>
    /\ requests = 0
    /\ rejected = 0
    /\ delays = 0
    /\ written = NoOutput
    /\ subtitles \in { FileCaptions(n) : n \in 0..MaxMergeSubs }
    /\ batchSize \in 1..MaxBatchSize
    /\ maxChars = DefaultMaxChars
    /\ bpc = "loop"
    /\ bpos = 0
    /\ batches = <<>>
    /\ currentBatch = <<>>
    /\ currentChars = 0

\* translate: if (subtitles.length === 0) process.exit(1); the batch command
\* has no such test. Then batchSubtitles is called.
MergeAfterParse ==
    /\ mpc = "parsed"
    /\ mpc' = IF mode = "translate" /\ Len(subtitles) = 0 THEN "failed" ELSE "batching"
    /\ UNCHANGED <<mode, mi, translatedSubtitles, returned, requests, rejected, delays, written>>
    /\ UNCHANGED batchVars

\* batchSubtitles runs (BatchIter, BatchReturn).
MergeBatching(step) ==
    /\ mpc = "batching"
    /\ step
    /\ UNCHANGED mergeVars

\* const translatedSubtitles = [...subtitles]; the loop over the batches starts.
MergeStartLoop ==
    /\ mpc = "batching"
    /\ bpc = "done"
    /\ translatedSubtitles' = subtitles
    /\ mi' = 0
    /\ mpc' = "loop"
    /\ UNCHANGED <<mode, returned, requests, rejected, delays, written>>
    /\ UNCHANGED batchVars

\* await provider.translateBatch(batch) is issued.
MergeCall ==
    /\ mpc = "loop"
    /\ mi < Len(batches)
    /\ requests' = requests + 1
    /\ mpc' = "await"
    /\ UNCHANGED <<mode, mi, translatedSubtitles, returned, rejected, delays, written>>
    /\ UNCHANGED batchVars

\* subtitles.indexOf(batch[0]), 0-based
IndexOf(subs, cap) ==
    IF \E p \in 1..Len(subs) : subs[p].ref = cap.ref
    THEN (CHOOSE p \in 1..Len(subs) :
             subs[p].ref = cap.ref /\ \A q \in 1..(p - 1) : subs[q].ref # cap.ref) - 1
    ELSE -1

\* Variant: the merged caption takes fresh timing fields.
MergedCaption_ResetTimes(cap, text) ==
    [cap EXCEPT !.text = text, !.startTime = MsToSrtTime(0), !.endTime = MsToSrtTime(0)]

\* { ...batch[j], text: translations[j] }
MergedCaption(cap, text) == [cap EXCEPT !.text = text]

\* Variant: the batch is merged at the start of the file.
MergeInto_NoOffset(out, subs, b, translations) ==
    [p \in 1..Len(out) |->
        IF p \in 1..Len(b) THEN MergedCaption(b[p], translations[p]) ELSE out[p]]

\* The inner loop: translatedSubtitles[startIdx + j] = merged caption, for
\* every j of the batch.
MergeInto(out, subs, b, translations) ==
    LET startIdx == IndexOf(subs, b[1])
    IN  [p \in 1..Len(out) |->
            IF p - 1 - startIdx \in 0..(Len(b) - 1)
            THEN MergedCaption(b[p - startIdx], translations[p - startIdx])
            ELSE out[p]]

\* Variant: a delay follows every batch, the last one included.
MergeResolve_AlwaysDelay ==
    /\ mpc = "await"
    /\ \E translations \in [1..Len(batches[mi + 1]) -> Translations] :
        /\ returned' = Append(returned, translations)
        /\ translatedSubtitles' =
              MergeInto(translatedSubtitles, subtitles, batches[mi + 1], translations)
    /\ delays' = delays + 1
    /\ mpc' = "delay"
    /\ mi' = mi
    /\ UNCHANGED <<mode, requests, rejected, written>>
    /\ UNCHANGED batchVars

\* translateBatch returns: the batch is merged; a delay follows unless it was
\* the last batch.
MergeResolve ==
    /\ mpc = "await"
    /\ \E translations \in [1..Len(batches[mi + 1]) -> Translations] :
        /\ returned' = Append(returned, translations)
        /\ translatedSubtitles' =
              MergeInto(translatedSubtitles, subtitles, batches[mi + 1], translations)
    /\ IF mi < Len(batches) - 1
       THEN /\ delays' = delays + 1
            /\ mpc' = "delay"
            /\ mi' = mi
       ELSE /\ delays' = delays
            /\ mpc' = "loop"
            /\ mi' = mi + 1
    /\ UNCHANGED <<mode, requests, rejected, written>>
    /\ UNCHANGED batchVars

\* Variant: a batch that failed is skipped and the loop goes on.
MergeReject_Continue ==
    /\ mpc = "await"
    /\ rejected' = rejected + 1
    /\ returned' = Append(returned, <<>>)
    /\ mi' = mi + 1
    /\ mpc' = "loop"
    /\ UNCHANGED <<mode, translatedSubtitles, requests, delays, written>>
    /\ UNCHANGED batchVars

\* translateBatch throws: the catch block of the action (process.exit(1)) or
\* of the job (failed++) is entered.
MergeReject ==
    /\ mpc = "await"
    /\ rejected' = rejected + 1
    /\ mpc' = "failed"
    /\ UNCHANGED <<mode, mi, translatedSubtitles, returned, requests, delays, written>>
    /\ UNCHANGED batchVars

\* The inter-batch delay ends: i++.
MergeDelayEnd ==
    /\ mpc = "delay"
    /\ mi' = mi + 1
    /\ mpc' = "loop"
    /\ UNCHANGED <<mode, translatedSubtitles, returned, requests, rejected, delays, written>>
    /\ UNCHANGED batchVars

\* The loop is over: serialize(translatedSubtitles, outputFormat) and writeFile.
MergeWrite ==
    /\ mpc = "loop"
    /\ mi >= Len(batches)
    /\ written' = <<translatedSubtitles>>
    /\ mpc' = "written"
    /\ UNCHANGED <<mode, mi, translatedSubtitles, returned, requests, rejected, delays>>
    /\ UNCHANGED batchVars

\* writeFile throws.
MergeWriteFail ==
    /\ mpc = "loop"
    /\ mi >= Len(batches)
    /\ mpc' = "failed"
    /\ UNCHANGED <<mode, mi, translatedSubtitles, returned, requests, rejected, delays, written>>
    /\ UNCHANGED batchVars


----------------------------------------------------------------------------
(* createProvider: the provider is chosen from the explicit name, the      *)
(* prefix of the explicit key or the environment; a missing key is an      *)
(* error; then the provider is constructed.                                *)

\* The value of an option that was not given, of a variable that is not set.
Undefined == <<"undefined">>

\* The provider option when it was not given.
NoProvider == "undefined"

\* JavaScript truthiness of a string | undefined
Truthy(v) == v # Undefined /\ v # <<>>

\* str.startsWith(prefix)
StartsWith(str, prefix) ==
    Len(str) >= Len(prefix) /\ SubSeq(str, 1, Len(prefix)) = prefix

\* PROVIDERS: the fields createProvider reads
PROVIDERS ==
    [openai    |-> [displayName |-> <<"O", "p", "e", "n", "A", "I">>, requiresApiKey |-> TRUE,
                    envVar |-> <<"O", "P", "E", "N", "A", "I", "_", "A", "P", "I", "_", "K",
                        "E", "Y">>],
     anthropic |-> [displayName |-> <<"A", "n", "t", "h", "r", "o", "p", "i",
         "c">>, requiresApiKey |-> TRUE,
                    envVar |-> <<"A", "N", "T", "H", "R", "O", "P", "I", "C", "_", "A", "P",
                        "I", "_", "K", "E", "Y">>],
     gemini    |-> [displayName |-> <<"G", "o", "o", "g", "l", "e", " ", "G", "e", "m", "i",
         "n", "i">>, requiresApiKey |-> TRUE,
                    envVar |-> <<"G", "E", "M", "I", "N", "I", "_", "A", "P", "I", "_", "K",
                        "E", "Y">>],
     kimi      |-> [displayName |-> <<"K", "i", "m", "i">>, requiresApiKey |-> TRUE,
                    envVar |-> <<"K", "I", "M", "I", "_", "A", "P", "I", "_", "K", "E", "Y">>],
     whisper   |-> [displayName |-> <<"W", "h", "i", "s", "p", "e", "r", " ", "(", "L", "o",
         "c", "a", "l", ")">>, requiresApiKey |-> FALSE,
                    envVar |-> <<>>]]

ProviderNames == DOMAIN PROVIDERS

\* The variables of process.env that the program reads.
EnvVarNames == { PROVIDERS[p].envVar : p \in { q \in ProviderNames : PROVIDERS[q].requiresApiKey } }

\* A value for each variable. None has the prefix of its provider's keys:
\* the environment scan does not look at the value.
EnvSample(v) == <<"s", "k", "-", "a", "n", "t", "-">> \o SubSeq(v, 1, 1)

\* process.env: each variable is unset, set to the empty string, or set to a value.
Envs ==
    { [v \in EnvVarNames |->
          IF c[v] = 0 THEN Undefined ELSE IF c[v] = 1 THEN <<>> ELSE EnvSample(v)]
      : c \in [EnvVarNames -> 0..2] }

\* The values of --api-key.
ExplicitKeys ==
    { Undefined, <<>>, <<"s", "k", "-", "k", "i", "m", "i", "-", "1">>, <<"s", "k", "-", "a",
        "n", "t", "-", "1">>, <<"s", "k", "-", "1">>, <<"A", "I", "z", "a", "1">>, <<"a", "b",
        "c">> }

\* The values of the target language.
TargetLangs == { <<"E", "n", "g", "l", "i", "s", "h">>, <<"e", "n">>, <<"E", "N">>, <<"S",
    "p", "a", "n", "i", "s", "h">>, <<"e", "n", "g">> }

\* Variant: the generic 'sk-' prefix is tested first.
DetectProvider_SkFirst(key) ==
    IF StartsWith(key, <<"s", "k", "-">>) THEN "openai"
    ELSE IF StartsWith(key, <<"s", "k", "-", "k", "i", "m", "i", "-">>) THEN "kimi"
    ELSE IF StartsWith(key, <<"s", "k", "-", "a", "n", "t", "-">>) THEN "anthropic"
    ELSE IF StartsWith(key, <<"A", "I", "z", "a">>) THEN "gemini"
    ELSE "null"

\* detectProvider ("null": no provider detected)
DetectProvider(key) ==
    IF StartsWith(key, <<"s", "k", "-", "k", "i", "m", "i", "-">>) THEN "kimi"
    ELSE IF StartsWith(key, <<"s", "k", "-", "a", "n", "t", "-">>) \/ StartsWith(key, <<"s",
        "k", "-">>)
         THEN IF StartsWith(key, <<"s", "k", "-", "a", "n", "t",
             "-">>) THEN "anthropic" ELSE "openai"
    ELSE IF StartsWith(key, <<"A", "I", "z", "a">>) THEN "gemini"
    ELSE "null"

\* getApiKey(provider, explicitKey)
GetApiKey(e, provider, key) ==
    IF Truthy(key) THEN key
    ELSE IF ~PROVIDERS[provider].requiresApiKey THEN Undefined
    ELSE e[PROVIDERS[provider].envVar]

\* Variant: Anthropic is preferred to OpenAI.
CheckOrder_AnthropicFirst == <<"anthropic", "openai", "gemini", "kimi">>

\* detectFromEnv: checkOrder
CheckOrder == <<"openai", "anthropic", "gemini", "kimi">>

\* detectFromEnv: the loop from position k of checkOrder ("null": none found)
RECURSIVE DetectFromEnvFrom(_, _)
DetectFromEnvFrom(e, k) ==
    IF k > Len(CheckOrder) THEN [name |-> "null", apiKey |-> Undefined]
    ELSE LET key == e[PROVIDERS[CheckOrder[k]].envVar]
         IN  IF Truthy(key) THEN [name |-> CheckOrder[k], apiKey |-> key]
             ELSE DetectFromEnvFrom(e, k + 1)

DetectFromEnv(e) == DetectFromEnvFrom(e, 1)

\* Variant: a recognised key prefix wins over the explicit provider name.
SelectProvider_KeyFirst(prov, key, e) ==
    IF Truthy(key) /\ DetectProvider(key) # "null"
    THEN [name |-> DetectProvider(key), apiKey |-> key]
    ELSE IF prov # NoProvider
    THEN [name |-> prov, apiKey |-> IF Truthy(key) THEN key ELSE GetApiKey(e, prov, Undefined)]
    ELSE IF Truthy(key) THEN [name |-> "openai", apiKey |-> key]
    ELSE LET detectedProvider == DetectFromEnv(e)
         IN  IF detectedProvider.name # "null" THEN detectedProvider
             ELSE [name |-> "whisper", apiKey |-> Undefined]

\* createProvider: "Determine which provider to use"
SelectProvider(prov, key, e) ==
    IF prov # NoProvider
    THEN [name |-> prov, apiKey |-> IF Truthy(key) THEN key ELSE GetApiKey(e, prov, Undefined)]
    ELSE IF Truthy(key)
    THEN LET detected == DetectProvider(key)
         IN  IF detected # "null" THEN [name |-> detected, apiKey |-> key]
             ELSE [name |-> "openai", apiKey |-> key]
    ELSE LET detectedProvider == DetectFromEnv(e)
         IN  IF detectedProvider.name # "null" THEN detectedProvider
             ELSE [name |-> "whisper", apiKey |-> Undefined]

\* Variant: only an undefined key is missing.
KeyMissing_UndefinedOnly(name, key) ==
    PROVIDERS[name].requiresApiKey /\ key = Undefined

\* createProvider: PROVIDERS[providerName].requiresApiKey && !apiKey
KeyMissing(name, key) ==
    PROVIDERS[name].requiresApiKey /\ ~Truthy(key)

\* createProvider: the message of the error thrown for a missing key
KeyMissingMessage(name) ==
    PROVIDERS[name].displayName \o <<" ", "r", "e", "q", "u", "i", "r", "e", "s", " ", "a",
        "n", " ", "A", "P", "I", " ", "k", "e", "y", ".">> \o <<"\n">>
    \o <<"S", "e", "t", " ">> \o PROVIDERS[name].envVar \o <<" ", "e", "n", "v", "i", "r",
        "o", "n", "m", "e", "n", "t", " ", "v", "a", "r", "i", "a", "b", "l", "e", " ", "o",
        "r", " ", "u", "s", "e", " ", "-", "-", "a", "p", "i", "-", "k", "e", "y", " ", "f",
        "l", "a", "g", ".">>

UpperChars == <<"A", "B", "C", "D", "E", "F", "G", "H", "I", "J", "K", "L", "M", "N", "O",
    "P", "Q", "R", "S", "T", "U", "V", "W", "X", "Y", "Z">>

LowerChars == <<"a", "b", "c", "d", "e", "f", "g", "h", "i", "j", "k", "l", "m", "n", "o",
    "p", "q", "r", "s", "t", "u", "v", "w", "x", "y", "z">>

\* c.toLowerCase()
LowerChar(c) ==
    IF \E k \in 1..26 : UpperChars[k] = c
    THEN LowerChars[CHOOSE k \in 1..26 : UpperChars[k] = c]
    ELSE c

\* str.toLowerCase()
ToLowerCase(str) == [k \in 1..Len(str) |-> LowerChar(str[k])]

\* Variant: the target language is compared as written.
WhisperRejects_CaseSensitive(lang) ==
    lang # <<"e", "n", "g", "l", "i", "s", "h">> /\ lang # <<"e", "n">>

\* createWhisperProvider: the test on the target language
WhisperRejects(lang) ==
    ToLowerCase(lang) # <<"e", "n", "g", "l", "i", "s", "h">> /\ ToLowerCase(lang) # <<"e",
        "n">>

\* createWhisperProvider: the message of the error thrown at construction
WhisperRejectMessage(lang) ==
    <<"W", "h", "i", "s", "p", "e", "r", " ", "c", "a", "n", " ", "o", "n", "l", "y", " ",
        "t", "r", "a", "n", "s", "l", "a", "t", "e", " ", "T", "O", " ", "E", "n", "g", "l",
        "i", "s", "h", ",", " ", "n", "o", "t", " ", "t", "o", " ">> \o lang \o <<".">>

\* TranslationStats with every counter at zero
ZeroStats ==
    [totalTokens |-> 0, inputTokens |-> 0, outputTokens |-> 0,
     cachedTokens |-> 0, apiCalls |-> 0, retries |-> 0]

ProviderIdle ==
    /\ explicitProvider = NoProvider
    /\ explicitKey = Undefined
    /\ env = [v \in EnvVarNames |-> Undefined]
    /\ targetLang = <<"E", "n", "g", "l", "i", "s", "h">>
    /\ cpc = "idle"
    /\ providerName = "null"
    /\ apiKey = Undefined
    /\ createError = <<>>
    /\ constructs = 0
    /\ netRequests = 0
    /\ stats = ZeroStats
    /\ tcalls = 0
    /\ tthrown = 0

\* createProvider is entered.
ProviderInit ==
    /\ explicitProvider \in ProviderNames \cup {NoProvider}
    /\ explicitKey \in ExplicitKeys
    /\ env \in Envs
    /\ targetLang \in TargetLangs
    /\ cpc = "start"
    /\ providerName = "null"
    /\ apiKey = Undefined
    /\ createError = <<>>
    /\ constructs = 0
    /\ netRequests = 0
    /\ stats = ZeroStats
    /\ tcalls = 0
    /\ tthrown = 0

ProviderInputs == <<explicitProvider, explicitKey, env, targetLang>>

\* createProvider: providerName and apiKey are determined.
CreateSelect ==
    /\ cpc = "start"
    /\ LET sel == SelectProvider(explicitProvider, explicitKey, env)
       IN  /\ providerName' = sel.name
           /\ apiKey' = sel.apiKey
    /\ cpc' = "selected"
    /\ UNCHANGED <<ProviderInputs, createError, constructs, netRequests, stats, tcalls, tthrown>>

\* createProvider: "Validate API key requirement"
CreateValidate ==
    /\ cpc = "selected"
    /\ IF KeyMissing(providerName, apiKey)
       THEN /\ createError' = KeyMissingMessage(providerName)
            /\ cpc' = "error"
       ELSE /\ createError' = createError
            /\ cpc' = "validated"
    /\ UNCHANGED <<ProviderInputs, providerName, apiKey, constructs, netRequests, stats,
                   tcalls, tthrown>>

\* createProviderByName: the constructor of the provider runs. That of
\* Whisper throws for a target language other than English; that of a
\* provider with a key throws only for a missing key, which was excluded.
CreateByName ==
    /\ cpc = "validated"
    /\ constructs' = constructs + 1
    /\ stats' = ZeroStats
    /\ IF providerName = "whisper" /\ WhisperRejects(targetLang)
       THEN /\ createError' = WhisperRejectMessage(targetLang)
            /\ cpc' = "error"
       ELSE /\ createError' = createError
            /\ cpc' = "constructed"
    /\ UNCHANGED <<ProviderInputs, providerName, apiKey, netRequests, tcalls, tthrown>>

\* translateBatch of the Whisper provider: it throws.
WhisperTranslateBatch ==
    /\ cpc = "constructed"
    /\ providerName = "whisper"
    /\ tcalls < MaxProviderCalls
    /\ tcalls' = tcalls + 1
    /\ tthrown' = tthrown + 1
    /\ UNCHANGED <<ProviderInputs, cpc, providerName, apiKey, createError, constructs,
                   netRequests, stats>>

\* translateBatch of a provider with a key: a request is sent (doRequest)
\* and answered; stats.apiCalls++.
RemoteTranslateBatch ==
    /\ cpc = "constructed"
    /\ providerName # "whisper"
    /\ tcalls < MaxProviderCalls
    /\ tcalls' = tcalls + 1
    /\ netRequests' = netRequests + 1
    /\ stats' = [stats EXCEPT !.apiCalls = @ + 1]
    /\ UNCHANGED <<ProviderInputs, cpc, providerName, apiKey, createError, constructs,
                   tthrown>>


----------------------------------------------------------------------------
(* serialize and parse. The text of a file is held as the sequence of its  *)
(* lines, what split('\n') gives once line endings are normalised; no text *)
(* of the model holds a carriage return.                                   *)

\* str.replace(a, b): the first occurrence of the character a
RECURSIVE ReplaceFirst(_, _, _)
ReplaceFirst(str, a, b) ==
    IF str = <<>> THEN <<>>
    ELSE IF Head(str) = a THEN b \o Tail(str)
    ELSE <<Head(str)>> \o ReplaceFirst(Tail(str), a, b)

\* str.replace(/a/g, b): every occurrence of the character a
RECURSIVE ReplaceAll(_, _, _)
ReplaceAll(str, a, b) ==
    IF str = <<>> THEN <<>>
    ELSE (IF Head(str) = a THEN b ELSE <<Head(str)>>) \o ReplaceAll(Tail(str), a, b)

\* pieces.join(sep)
RECURSIVE JoinWith(_, _)
JoinWith(pieces, sep) ==
    IF pieces = <<>> THEN <<>>
    ELSE IF Len(pieces) = 1 THEN pieces[1]
    ELSE pieces[1] \o sep \o JoinWith(Tail(pieces), sep)

\* str.split(c) for a character c: piece k lies between the (k-1)-th and
\* the k-th occurrence of c.
SplitChar(str, c) ==
    LET seps == { i \in 1..Len(str) : str[i] = c }
        n == Cardinality(seps)
        at(k) == IF k = 0 THEN 0
                 ELSE IF k > n THEN Len(str) + 1
                 ELSE CHOOSE i \in seps : Cardinality({ j \in seps : j <= i }) = k
    IN  [k \in 1..(n + 1) |-> SubSeq(str, at(k - 1) + 1, at(k) - 1)]

\* The lines of pieces.join(sep), each piece given as its lines and sep as
\* the lines between the last line of a piece and the first of the next
\* ('\n': none, '\n\n': one empty line). The empty string is one empty line.
RECURSIVE JoinLines(_, _)
JoinLines(pieces, sep) ==
    IF pieces = <<>> THEN << <<>> >>
    ELSE IF Len(pieces) = 1 THEN pieces[1]
    ELSE pieces[1] \o sep \o JoinLines(Tail(pieces), sep)

\* toSRT, toVTT: the lines of `${i + 1}\n${start} --> ${end}\n${sub.text}`
CueBlock(i, start, end, text) ==
    << DecStr(i), start \o <<" ", "-", "-", ">", " ">> \o end >> \o Split(text)

\* toSRT: the blocks joined by '\n\n', then '\n'
ToSRT(subs) ==
    JoinLines([i \in 1..Len(subs) |->
                  CueBlock(i, subs[i].startTime, subs[i].endTime, subs[i].text)],
              << <<>> >>)
    \o << <<>> >>

\* toVTT: the header 'WEBVTT\n\n', the blocks joined by '\n\n', then '\n'
ToVTT(subs) ==
    << <<"W", "E", "B", "V", "T", "T">>, <<>> >>
    \o JoinLines([i \in 1..Len(subs) |->
                     CueBlock(i, ReplaceFirst(subs[i].startTime, ",", <<".">>),
                              ReplaceFirst(subs[i].endTime, ",", <<".">>),
                              subs[i].text)],
                 << <<>> >>)
    \o << <<>> >>

\* The index of the leftmost match of \d{2}:\d{2}:\d{2}<sep>\d{3} in str, for
\* a separator of seps (0: no match)
IsClockAt(str, p, seps) ==
    /\ p >= 1
    /\ p + 11 <= Len(str)
    /\ IsDigit(str[p]) /\ IsDigit(str[p + 1]) /\ str[p + 2] = ":"
    /\ IsDigit(str[p + 3]) /\ IsDigit(str[p + 4]) /\ str[p + 5] = ":"
    /\ IsDigit(str[p + 6]) /\ IsDigit(str[p + 7]) /\ str[p + 8] \in seps
    /\ IsDigit(str[p + 9]) /\ IsDigit(str[p + 10]) /\ IsDigit(str[p + 11])

\* toASS: formatTime
AssTime(t) ==
    IF \E p \in 1..Len(t) : IsClockAt(t, p, {","})
    THEN LET p == CHOOSE q \in 1..Len(t) :
                     IsClockAt(t, q, {","}) /\ \A r \in 1..(q - 1) : ~IsClockAt(t, r, {","})
         IN  DecStr(ParseInt(SubSeq(t, p, p + 1))) \o <<":">> \o SubSeq(t, p + 3, p + 4)
             \o <<":">> \o SubSeq(t, p + 6, p + 7) \o <<".">> \o SubSeq(t, p + 9, p + 10)
    ELSE <<"0", ":", "0", "0", ":", "0", "0", ".", "0", "0">>

\* toASS: the lines of header
AssHeader ==
    << <<"[", "S", "c", "r", "i", "p", "t", " ", "I", "n", "f", "o", "]">>,
       <<"T", "i", "t", "l", "e", ":", " ", "T", "r", "a", "n", "s", "l", "a", "t", "e", "d",
           " ", "S", "u", "b", "t", "i", "t", "l", "e", "s">>,
       <<"S", "c", "r", "i", "p", "t", "T", "y", "p", "e", ":", " ", "v", "4", ".", "0", "0",
           "+">>,
       <<"C", "o", "l", "l", "i", "s", "i", "o", "n", "s", ":", " ", "N", "o", "r", "m", "a",
           "l">>,
       <<"P", "l", "a", "y", "D", "e", "p", "t", "h", ":", " ", "0">>,
       <<>>,
       <<"[", "V", "4", "+", " ", "S", "t", "y", "l", "e", "s", "]">>,
       <<"F", "o", "r", "m", "a", "t", ":", " ", "N", "a", "m", "e", ",", " ", "F", "o", "n",
           "t", "n", "a", "m", "e", ",", " ", "F", "o", "n", "t", "s", "i", "z", "e", ",",
           " ", "P", "r", "i", "m", "a", "r", "y", "C", "o", "l", "o", "u", "r", ",", " ",
           "S", "e", "c", "o", "n", "d", "a", "r", "y", "C", "o", "l", "o", "u", "r", ",",
           " ", "O", "u", "t", "l", "i", "n", "e", "C", "o", "l", "o", "u", "r", ",", " ",
           "B", "a", "c", "k", "C", "o", "l", "o", "u", "r", ",", " ", "B", "o", "l", "d",
           ",", " ", "I", "t", "a", "l", "i", "c", ",", " ", "U", "n", "d", "e", "r", "l",
           "i", "n", "e", ",", " ", "S", "t", "r", "i", "k", "e", "O", "u", "t", ",", " ",
           "S", "c", "a", "l", "e", "X", ",", " ", "S", "c", "a", "l", "e", "Y", ",", " ",
           "S", "p", "a", "c", "i", "n", "g", ",", " ", "A", "n", "g", "l", "e", ",", " ",
           "B", "o", "r", "d", "e", "r", "S", "t", "y", "l", "e", ",", " ", "O", "u", "t",
           "l", "i", "n", "e", ",", " ", "S", "h", "a", "d", "o", "w", ",", " ", "A", "l",
           "i", "g", "n", "m", "e", "n", "t", ",", " ", "M", "a", "r", "g", "i", "n", "L",
           ",", " ", "M", "a", "r", "g", "i", "n", "R", ",", " ", "M", "a", "r", "g", "i",
           "n", "V", ",", " ", "E", "n", "c", "o", "d", "i", "n", "g">>,
       <<"S", "t", "y", "l", "e", ":", " ", "D", "e", "f", "a", "u", "l", "t", ",", "A", "r",
           "i", "a", "l", ",", "2", "0", ",", "&", "H", "0", "0", "F", "F", "F", "F", "F",
           "F", ",", "&", "H", "0", "0", "0", "0", "0", "0", "F", "F", ",", "&", "H", "0",
           "0", "0", "0", "0", "0", "0", "0", ",", "&", "H", "0", "0", "0", "0", "0", "0",
           "0", "0", ",", "0", ",", "0", ",", "0", ",", "0", ",", "1", "0", "0", ",", "1",
           "0", "0", ",", "0", ",", "0", ",", "1", ",", "2", ",", "2", ",", "2", ",", "1",
           "0", ",", "1", "0", ",", "1", "0", ",", "1">>,
       <<>>,
       <<"[", "E", "v", "e", "n", "t", "s", "]">>,
       <<"F", "o", "r", "m", "a", "t", ":", " ", "L", "a", "y", "e", "r", ",", " ", "S", "t",
           "a", "r", "t", ",", " ", "E", "n", "d", ",", " ", "S", "t", "y", "l", "e", ",",
           " ", "N", "a", "m", "e", ",", " ", "M", "a", "r", "g", "i", "n", "L", ",", " ",
           "M", "a", "r", "g", "i", "n", "R", ",", " ", "M", "a", "r", "g", "i", "n", "V",
           ",", " ", "E", "f", "f", "e", "c", "t", ",", " ", "T", "e", "x", "t">> >>

\* toASS: a Dialogue line
AssDialogue(sub) ==
    <<"D", "i", "a", "l", "o", "g", "u", "e", ":", " ", "0",
        ",">> \o AssTime(sub.startTime) \o <<",">> \o AssTime(sub.endTime)
    \o <<",", "D", "e", "f", "a", "u", "l", "t", ",", ",", "0", ",", "0", ",", "0", ",",
        ",">> \o ReplaceAll(sub.text, "\n", <<"\\", "N">>)

\* toASS: the header, which ends with a line feed, the dialogues joined by
\* '\n', then '\n'
ToASS(subs) ==
    AssHeader
    \o JoinLines([i \in 1..Len(subs) |-> <<AssDialogue(subs[i])>>], <<>>)
    \o << <<>> >>

\* serialize
Serialize(subs, fmt) ==
    CASE fmt = "vtt" -> ToVTT(subs)
      [] fmt = "ass" -> ToASS(subs)
      [] OTHER -> ToSRT(subs)


\* lines.filter(line => line.trim())
NonBlank(ls) == SelectSeq(ls, LAMBDA l : Trim(l) # <<>>)

\* The groups of lines between runs of empty lines.
RECURSIVE SplitBlocksFrom(_, _, _)
SplitBlocksFrom(ls, i, cur) ==
    IF i > Len(ls) THEN (IF cur = <<>> THEN <<>> ELSE <<cur>>)
    ELSE IF ls[i] = <<>>
         THEN (IF cur = <<>> THEN <<>> ELSE <<cur>>) \o SplitBlocksFrom(ls, i + 1, <<>>)
    ELSE SplitBlocksFrom(ls, i + 1, Append(cur, ls[i]))

\* normalized.split(/\n\n+/).filter(block => block.trim()): two line feeds or
\* more in a row are one empty line or more; each block is held as its lines.
Blocks(ls) ==
    SelectSeq(SplitBlocksFrom(ls, 1, <<>>), LAMBDA b : \E k \in 1..Len(b) : Trim(b[k]) # <<>>)

\* parseInt(str, 10) is NaN: no digit after the leading white space (a sign
\* is not modelled).
IsNaNInt(str) == DigitsEnd(TrimStart(str), 1) = 1

\* parseInt(str, 10) when it is a number
ParseIntOf(str) ==
    LET t == TrimStart(str)
    IN  ParseInt(SubSeq(t, 1, DigitsEnd(t, 1) - 1))

\* \d{2}:\d{2}\.\d{3} at index p of str
IsShortClockAt(str, p) ==
    /\ p >= 1
    /\ p + 8 <= Len(str)
    /\ IsDigit(str[p]) /\ IsDigit(str[p + 1]) /\ str[p + 2] = ":"
    /\ IsDigit(str[p + 3]) /\ IsDigit(str[p + 4]) /\ str[p + 5] = "."
    /\ IsDigit(str[p + 6]) /\ IsDigit(str[p + 7]) /\ IsDigit(str[p + 8])

\* The length of the timestamp matched at index p (0: none). The two
\* alternatives of parseVTT cannot both match at the same index.
ClockLenAt(str, p, seps, short) ==
    IF IsClockAt(str, p, seps) THEN 12
    ELSE IF short /\ IsShortClockAt(str, p) THEN 9
    ELSE 0

\* \s*: the index after the white space that starts at index p
RECURSIVE SkipSpaces(_, _)
SkipSpaces(str, p) ==
    IF p <= Len(str) /\ IsSpace(str[p]) THEN SkipSpaces(str, p + 1) ELSE p

IsArrowAt(str, p) ==
    p + 2 <= Len(str) /\ str[p] = "-" /\ str[p + 1] = "-" /\ str[p + 2] = ">"

NoTiming == [ok |-> FALSE, start |-> <<>>, end |-> <<>>]

\* <timestamp>\s*-->\s*<timestamp> matched at index p of str
TimingAt(str, p, seps, short) ==
    LET n1 == ClockLenAt(str, p, seps, short)
        a == SkipSpaces(str, p + n1)
        b == SkipSpaces(str, a + 3)
        n2 == ClockLenAt(str, b, seps, short)
    IN  IF n1 > 0 /\ IsArrowAt(str, a) /\ n2 > 0
        THEN [ok |-> TRUE, start |-> SubSeq(str, p, p + n1 - 1),
              end |-> SubSeq(str, b, b + n2 - 1)]
        ELSE NoTiming

\* str.match of the timing pattern: the leftmost match
TimingMatch(str, seps, short) ==
    IF \E p \in 1..Len(str) : TimingAt(str, p, seps, short).ok
    THEN TimingAt(str, CHOOSE p \in 1..Len(str) :
                          /\ TimingAt(str, p, seps, short).ok
                          /\ \A q \in 1..(p - 1) : ~TimingAt(str, q, seps, short).ok,
                  seps, short)
    ELSE NoTiming

\* parseSRT: the body of the loop, the captions pushed for one block
SrtBlock(block) ==
    LET blockLines == NonBlank(block)
        timeMatch == TimingMatch(blockLines[2], {",", "."}, FALSE)
    IN  IF Len(blockLines) < 3 THEN <<>>
        ELSE IF IsNaNInt(blockLines[1]) THEN <<>>
        ELSE IF ~timeMatch.ok THEN <<>>
        ELSE << [index |-> ParseIntOf(blockLines[1]),
                 startTime |-> ReplaceFirst(timeMatch.start, ".", <<",">>),
                 endTime |-> ReplaceFirst(timeMatch.end, ".", <<",">>),
                 text |-> Join(SubSeq(blockLines, 3, Len(blockLines)))] >>

RECURSIVE ParseSRTFrom(_, _)
ParseSRTFrom(blocks, k) ==
    IF k > Len(blocks) THEN <<>>
    ELSE SrtBlock(blocks[k]) \o ParseSRTFrom(blocks, k + 1)

\* Variant: the loop ends at the first block that yields no caption.
ParseSRT_UntilMalformed(ls) ==
    LET blocks == Blocks(ls)
        bad == { k \in 1..Len(blocks) : SrtBlock(blocks[k]) = <<>> }
        n == IF bad = {} THEN Len(blocks)
             ELSE (CHOOSE k \in bad : \A q \in bad : k <= q) - 1
    IN  ParseSRTFrom(SubSeq(blocks, 1, n), 1)

\* parseSRT
ParseSRT(ls) == ParseSRTFrom(Blocks(ls), 1)

\* str.replace(/<[^>]+>/g, '') and str.replace(/\{[^}]+\}/g, ''): the
\* delimited runs of at least one character are removed.
RECURSIVE StripDelimited(_, _, _)
StripDelimited(str, open, close) ==
    IF str = <<>> THEN <<>>
    ELSE IF /\ Head(str) = open
            /\ \E j \in 3..Len(str) : str[j] = close /\ \A k \in 2..(j - 1) : str[k] # close
         THEN LET j == CHOOSE j \in 3..Len(str) :
                           str[j] = close /\ \A k \in 2..(j - 1) : str[k] # close
              IN  StripDelimited(SubSeq(str, j + 1, Len(str)), open, close)
    ELSE <<Head(str)>> \o StripDelimited(Tail(str), open, close)

\* parseVTT: '00:' is put before a timestamp without hours; '.' becomes ','.
VttTime(t) ==
    ReplaceFirst(IF Len(SplitChar(t, ":")) = 2 THEN <<"0", "0", ":">> \o t ELSE t, ".", <<",">>)

\* parseVTT: the loop from block k, index being the number of captions pushed
RECURSIVE ParseVTTFrom(_, _, _)
ParseVTTFrom(blocks, k, index) ==
    IF k > Len(blocks) THEN <<>>
    ELSE LET block == blocks[k]
             blockLines == NonBlank(block)
             timeLineIdx == IF Includes(blockLines[1], <<"-", "-", ">">>) THEN 0 ELSE 1
             timeMatch == TimingMatch(blockLines[timeLineIdx + 1], {"."}, TRUE)
         IN  IF \/ Trim(Join(block)) = <<"W", "E", "B", "V", "T", "T">>
                \/ StartsWith(block[1], <<"N", "O", "T", "E">>)
                \/ Len(blockLines) < 2
                \/ ~timeMatch.ok
             THEN ParseVTTFrom(blocks, k + 1, index)
             ELSE << [index |-> index + 1,
                      startTime |-> VttTime(timeMatch.start),
                      endTime |-> VttTime(timeMatch.end),
                      text |-> StripDelimited(
                                   Join(SubSeq(blockLines, timeLineIdx + 2, Len(blockLines))),
                                   "<", ">")] >>
                  \o ParseVTTFrom(blocks, k + 1, index + 1)

\* parseVTT
ParseVTT(ls) == ParseVTTFrom(Blocks(ls), 1, 0)


\* str.endsWith(suffix)
EndsWith(str, suffix) ==
    Len(str) >= Len(suffix) /\ SubSeq(str, Len(str) - Len(suffix) + 1, Len(str)) = suffix

\* fields.indexOf(name), 0-based
FieldIndex(fields, name) ==
    IF \E k \in 1..Len(fields) : fields[k] = name
    THEN (CHOOSE k \in 1..Len(fields) :
             fields[k] = name /\ \A q \in 1..(k - 1) : fields[q] # name) - 1
    ELSE -1

\* (\d+):(\d{2}):(\d{2})\.(\d{2}) matched at index p of t
IsAssClockAt(t, p) ==
    LET e == DigitsEnd(t, p)
    IN  /\ e > p
        /\ e + 8 <= Len(t)
        /\ t[e] = ":" /\ IsDigit(t[e + 1]) /\ IsDigit(t[e + 2])
        /\ t[e + 3] = ":" /\ IsDigit(t[e + 4]) /\ IsDigit(t[e + 5])
        /\ t[e + 6] = "." /\ IsDigit(t[e + 7]) /\ IsDigit(t[e + 8])

\* parseASS: formatTime
AssFormatTime(t) ==
    IF \E p \in 1..Len(t) : IsAssClockAt(t, p)
    THEN LET p == CHOOSE q \in 1..Len(t) :
                     IsAssClockAt(t, q) /\ \A r \in 1..(q - 1) : ~IsAssClockAt(t, r)
             e == DigitsEnd(t, p)
         IN  PadStart(SubSeq(t, p, e - 1), 2) \o <<":">> \o SubSeq(t, e + 1, e + 2)
             \o <<":">> \o SubSeq(t, e + 4, e + 5) \o <<",">> \o SubSeq(t, e + 7, e + 8)
             \o <<"0">>
    ELSE <<"0", "0", ":", "0", "0", ":", "0", "0", ",", "0", "0", "0">>

\* str.replace(/\\N/g, '\n')
RECURSIVE UnescapeNewlines(_)
UnescapeNewlines(str) ==
    IF str = <<>> THEN <<>>
    ELSE IF Len(str) >= 2 /\ str[1] = "\\" /\ str[2] = "N"
         THEN <<"\n">> \o UnescapeNewlines(SubSeq(str, 3, Len(str)))
    ELSE <<Head(str)>> \o UnescapeNewlines(Tail(str))

\* parseASS: the captions pushed for a Dialogue line
AssDialogueCaption(line, formatFields, index) ==
    LET values == SplitChar(SubSeq(line, 10, Len(line)), ",")
        startIdx == FieldIndex(formatFields, <<"s", "t", "a", "r", "t">>)
        endIdx == FieldIndex(formatFields, <<"e", "n", "d">>)
        textIdx == FieldIndex(formatFields, <<"t", "e", "x", "t">>)
        startTime == IF startIdx + 1 \in 1..Len(values)
                     THEN Trim(values[startIdx + 1]) ELSE Undefined
        endTime == IF endIdx + 1 \in 1..Len(values)
                   THEN Trim(values[endIdx + 1]) ELSE Undefined
        text == StripDelimited(
                    UnescapeNewlines(
                        Trim(JoinWith(SubSeq(values, textIdx + 1, Len(values)), <<",">>))),
                    "{", "}")
    IN  IF startIdx = -1 \/ endIdx = -1 \/ textIdx = -1 THEN <<>>
        ELSE IF ~Truthy(startTime) \/ ~Truthy(endTime) THEN <<>>
        ELSE << [index |-> index + 1,
                 startTime |-> AssFormatTime(startTime),
                 endTime |-> AssFormatTime(endTime),
                 text |-> text] >>

\* parseASS: the loop from line k
RECURSIVE ParseASSFrom(_, _, _, _, _)
ParseASSFrom(ls, k, inEvents, formatFields, index) ==
    IF k > Len(ls) THEN <<>>
    ELSE LET line == ls[k]
         IN  IF Trim(line) = <<"[", "E", "v", "e", "n", "t", "s", "]">>
             THEN ParseASSFrom(ls, k + 1, TRUE, formatFields, index)
             ELSE IF StartsWith(line, <<"[">>) /\ EndsWith(line, <<"]">>)
             THEN ParseASSFrom(ls, k + 1, FALSE, formatFields, index)
             ELSE IF ~inEvents
             THEN ParseASSFrom(ls, k + 1, inEvents, formatFields, index)
             ELSE IF StartsWith(line, <<"F", "o", "r", "m", "a", "t", ":">>)
             THEN ParseASSFrom(ls, k + 1, inEvents,
                      [f \in 1..Len(SplitChar(SubSeq(line, 8, Len(line)), ",")) |->
                          ToLowerCase(Trim(SplitChar(SubSeq(line, 8, Len(line)), ",")[f]))],
                      index)
             ELSE IF StartsWith(line, <<"D", "i", "a", "l", "o", "g", "u", "e", ":">>)
             THEN LET pushed == AssDialogueCaption(line, formatFields, index)
                  IN  pushed \o ParseASSFrom(ls, k + 1, inEvents, formatFields,
                                             index + Len(pushed))
             ELSE ParseASSFrom(ls, k + 1, inEvents, formatFields, index)

\* Variant: only an [Events] header changes the mode, the headers of the
\* other sections are not seen.
ParseASS_OtherHeadersUnseen(ls) ==
    ParseASSFrom(SelectSeq(ls, LAMBDA l :
                     \/ Trim(l) = <<"[", "E", "v", "e", "n", "t", "s", "]">>
                     \/ ~(StartsWith(l, <<"[">>) /\ EndsWith(l, <<"]">>))),
                 1, FALSE, <<>>, 0)

\* parseASS
ParseASS(ls) == ParseASSFrom(ls, 1, FALSE, <<>>, 0)

\* parse
Parse(ls, fmt) ==
    CASE fmt = "vtt" -> ParseVTT(ls)
      [] fmt = "ass" -> ParseASS(ls)
      [] OTHER -> ParseSRT(ls)

Formats == {"srt", "vtt", "ass"}

\* The blocks of the SubRip files read: numbered out of order, with '.' in
\* the timestamps and two lines of text, with a word for a number, without
\* text, without timing line.
SrtFileBlocks ==
    { << <<"7">>, <<"0", "0", ":", "0", "0", ":", "0", "1", ",", "0", "0", "0", " ", "-", "-",
        ">", " ", "0", "0", ":", "0", "0", ":", "0", "2", ",", "5", "0", "0">>, <<"a">> >>,
      << <<"1">>, <<"0", "0", ":", "0", "0", ":", "0", "2", ".", "5", "0", "0", " ", "-", "-",
          ">", " ", "0", "1", ":", "0", "2", ":", "0", "3", ".", "4", "5",
          "6">>, <<"a">>, <<"b">> >>,
      << <<"x">>, <<"0", "0", ":", "0", "0", ":", "0", "1", ",", "0", "0", "0", " ", "-", "-",
          ">", " ", "0", "0", ":", "0", "0", ":", "0", "2", ",", "5", "0", "0">>, <<"a">> >>,
      << <<"2">>, <<"0", "0", ":", "0", "0", ":", "0", "1", ",", "0", "0", "0", " ", "-", "-",
          ">", " ", "0", "0", ":", "0", "0", ":", "0", "2", ",", "5", "0", "0">> >>,
      << <<"3">>, <<"s", "o", "o", "n">>, <<"a">> >> }

\* The blocks of the WebVTT files read: with a cue identifier, without one
\* and with short timestamps, with a text made of tags only, a note, a block
\* without timing line.
VttFileBlocks ==
    { << <<"7">>, <<"0", "0", ":", "0", "0", ":", "0", "1", ".", "0", "0", "0", " ", "-", "-",
        ">", " ", "0", "1", ":", "0", "2", ":", "0", "3", ".", "4", "5", "6">>, <<"a">> >>,
      << <<"0", "0", ":", "0", "1", ".", "0", "0", "0", " ", "-", "-", ">", " ", "0", "0",
          ":", "0", "2", ".", "5", "0", "0">>, <<"<", "i", ">", "a", "<", "/", "i",
          ">">>, <<"b">> >>,
      << <<"2">>, <<"0", "0", ":", "0", "0", ":", "0", "1", ".", "0", "0", "0", " ", "-", "-",
          ">", " ", "0", "0", ":", "0", "0", ":", "0", "2", ".", "5", "0", "0">>, <<"<", "i",
          ">", "<", "/", "i", ">">> >>,
      << <<"N", "O", "T", "E", " ", "c">> >>,
      << <<"i", "n", "t", "r", "o">>, <<"a">> >> }

\* The lines of the [Events] section of the ASS files read: a dialogue, one
\* with override tags, a comma and a line break in its text, one with an
\* empty text, one without end time, one with times that are no timestamps,
\* a comment, the header of another section.
AssFileBlocks ==
    { << <<"D", "i", "a", "l", "o", "g", "u", "e", ":", " ", "0", ",", "0", ":", "0", "0",
        ":", "0", "1", ".", "0", "0", ",", "1", ":", "0", "2", ":", "0", "3", ".", "4", "5",
        ",", "D", "e", "f", "a", "u", "l", "t", ",", ",", "0", ",", "0", ",", "0", ",", ",",
        "a">> >>,
      << <<"D", "i", "a", "l", "o", "g", "u", "e", ":", " ", "0", ",", "0", ":", "0", "0",
          ":", "0", "1", ".", "0", "0", ",", "0", ":", "0", "0", ":", "0", "2", ".", "5", "0",
          ",", "D", "e", "f", "a", "u", "l", "t", ",", ",", "0", ",", "0", ",", "0", ",", ",",
          "{", "\\", "i", "1", "}", "a", ",", " ", "b", "\\", "N", "c">> >>,
      << <<"D", "i", "a", "l", "o", "g", "u", "e", ":", " ", "0", ",", "0", ":", "0", "0",
          ":", "0", "1", ".", "0", "0", ",", "0", ":", "0", "0", ":", "0", "2", ".", "5", "0",
          ",", "D", "e", "f", "a", "u", "l", "t", ",", ",", "0", ",", "0", ",", "0", ",",
          ",">> >>,
      << <<"D", "i", "a", "l", "o", "g", "u", "e", ":", " ", "0", ",", "0", ":", "0", "0",
          ":", "0", "1", ".", "0", "0", ",", ",", "D", "e", "f", "a", "u", "l", "t", ",", ",",
          "0", ",", "0", ",", "0", ",", ",", "a">> >>,
      << <<"D", "i", "a", "l", "o", "g", "u", "e", ":", " ", "0", ",", "s", "o", "o", "n",
          ",", "l", "a", "t", "e", "r", ",", "D", "e", "f", "a", "u", "l", "t", ",", ",", "0",
          ",", "0", ",", "0", ",", ",", "a">> >>,
      << <<"C", "o", "m", "m", "e", "n", "t", ":", " ", "0", ",", "0", ":", "0", "0", ":",
          "0", "1", ".", "0", "0", ",", "0", ":", "0", "0", ":", "0", "2", ".", "5", "0", ",",
          "D", "e", "f", "a", "u", "l", "t", ",", ",", "0", ",", "0", ",", "0", ",", ",",
          "a">> >>,
      << <<"[", "F", "o", "n", "t", "s", "]">> >> }

\* The lines of a file made of blocks, an empty line after each (none after
\* the lines of an ASS file but the last).
RECURSIVE FileLines(_, _)
FileLines(bs, sep) ==
    IF bs = <<>> THEN <<>>
    ELSE Head(bs) \o (IF Len(bs) > 1 THEN sep ELSE <<>>) \o FileLines(Tail(bs), sep)

\* The lines of the ASS files read between the [Events] header and the
\* events: the Format line that toASS writes, none, a Dialogue line before
\* the Format line, a Format line in another section before a second [Events]
\* header, a Format line that names End before Start.
AssFilePreludes ==
    { << AssHeader[Len(AssHeader)] >>,
      << >>,
      << <<"D", "i", "a", "l", "o", "g", "u", "e", ":", " ", "0", ",", "0", ":", "0", "0",
          ":", "0", "1", ".", "0", "0", ",", "0", ":", "0", "0", ":", "0", "2", ".", "5", "0",
          ",", "D", "e", "f", "a", "u", "l", "t", ",", ",", "0", ",", "0", ",", "0", ",", ",",
          "a">>, AssHeader[Len(AssHeader)] >>,
      << <<"[", "F", "o", "n", "t", "s", "]">>, AssHeader[Len(AssHeader)], <<"[", "E", "v",
          "e", "n", "t", "s", "]">> >>,
      << <<"F", "o", "r", "m", "a", "t", ":", " ", "L", "a", "y", "e", "r", ",", " ", "E",
          "n", "d", ",", " ", "S", "t", "a", "r", "t", ",", " ", "S", "t", "y", "l", "e", ",",
          " ", "N", "a", "m", "e", ",", " ", "M", "a", "r", "g", "i", "n", "L", ",", " ", "M",
          "a", "r", "g", "i", "n", "R", ",", " ", "M", "a", "r", "g", "i", "n", "V", ",", " ",
          "E", "f", "f", "e", "c", "t", ",", " ", "T", "e", "x", "t">> >> }

BlockSeqs(choices) == UNION { [1..n -> choices] : n \in 0..MaxBlocks }

\* The files read, per format.
Files(fmt) ==
    CASE fmt = "vtt" ->
            { << <<"W", "E", "B", "V", "T",
                "T">>, <<>> >> \o FileLines(bs, << <<>> >>) \o << <<>> >>
              : bs \in BlockSeqs(VttFileBlocks) }
      [] fmt = "ass" ->
            { SubSeq(AssHeader, 1, Len(AssHeader) - 1) \o pre \o FileLines(bs, <<>>)
                  \o << <<>> >> : pre \in AssFilePreludes, bs \in BlockSeqs(AssFileBlocks) }
      [] OTHER ->
            { FileLines(bs, << <<>> >>) \o << <<>> >> : bs \in BlockSeqs(SrtFileBlocks) }

CodecIdle ==
    /\ format = "srt"
    /\ captions = <<>>
    /\ content = <<>>
    /\ parsed = <<>>
    /\ kpc = "idle"
    /\ fromSerialize = FALSE

\* A file has been read: const content = await readFile(input, 'utf-8')
CodecInit ==
    /\ format \in Formats
    /\ captions = <<>>
    /\ content \in Files(format)
    /\ parsed = <<>>
    /\ kpc = "content"
    /\ fromSerialize = FALSE

\* parse(content, format)
CodecParse ==
    /\ kpc = "content"
    /\ parsed' = Parse(content, format)
    /\ kpc' = "parsed"
    /\ UNCHANGED <<format, captions, content, fromSerialize>>

\* The captions parsed from the file are to be written in a format.
CodecConvert ==
    /\ kpc = "parsed"
    /\ ~fromSerialize
    /\ captions' = parsed
    /\ format' \in Formats
    /\ parsed' = <<>>
    /\ kpc' = "captions"
    /\ UNCHANGED <<content, fromSerialize>>

\* serialize(captions, format)
CodecSerialize ==
    /\ kpc = "captions"
    /\ content' = Serialize(captions, format)
    /\ fromSerialize' = TRUE
    /\ kpc' = "content"
    /\ UNCHANGED <<format, captions, parsed>>


----------------------------------------------------------------------------
(* The batch command: every job of the configuration is run in turn, in a  *)
(* try block of its own; a job reads and parses its file, creates the      *)
(* provider, translates the batches and writes the output.                 *)

JobsIdle ==
    /\ jobCount = 0
    /\ ji = 0
    /\ jpc = "idle"
    /\ completed = 0
    /\ failed = 0
    /\ outcomes = <<>>

\* The configuration has been loaded: let completed = 0; let failed = 0; i = 0.
\* The batch sizes tried are small ones (the command uses 100).
JobsInit ==
    /\ jobCount \in 0..MaxJobs
    /\ ji = 0
    /\ jpc = "next"
    /\ completed = 0
    /\ failed = 0
    /\ outcomes = <<>>
    /\ MergeIdle
    /\ subtitles = <<>>
    /\ batchSize \in 1..MaxBatchSize
    /\ maxChars = DefaultMaxChars
    /\ bpc = "done"
    /\ bpos = 0
    /\ batches = <<>>
    /\ currentBatch = <<>>
    /\ currentChars = 0

\* How the job that ends now is recorded: whether its file was parsed, and to
\* no caption, whether a request was sent and whether a file was written.
Outcome(result, isParsed) ==
    [job |-> ji, parsed |-> isParsed, empty |-> isParsed /\ Len(subtitles) = 0,
     sent |-> requests > 0, wrote |-> written # NoOutput, result |-> result]

\* The state of the job's locals when no job runs.
JobLocalsReset ==
    /\ mode' = "translate"
    /\ mpc' = "idle"
    /\ mi' = 0
    /\ translatedSubtitles' = <<>>
    /\ returned' = <<>>
    /\ requests' = 0
    /\ rejected' = 0
    /\ delays' = 0
    /\ written' = NoOutput
    /\ subtitles' = <<>>
    /\ bpc' = "done"
    /\ bpos' = 0
    /\ batches' = <<>>
    /\ currentBatch' = <<>>
    /\ currentChars' = 0
    /\ UNCHANGED <<batchSize, maxChars>>

\* The job's file is extracted if needed, read and parsed.
JobParsed ==
    /\ jpc = "next"
    /\ ji < jobCount
    /\ jpc' = "running"
    /\ mode' = "batchjob"
    /\ mpc' = "parsed"
    /\ subtitles' \in { FileCaptions(n) : n \in 0..MaxMergeSubs }
    /\ bpc' = "loop"
    /\ UNCHANGED <<mi, translatedSubtitles, returned, requests, rejected, delays, written>>
    /\ UNCHANGED <<batchSize, maxChars, bpos, batches, currentBatch, currentChars>>
    /\ UNCHANGED <<jobCount, ji, completed, failed, outcomes>>

\* extractSubtitle, readFile or parse throws: the catch block of the job.
JobEarlyFail ==
    /\ jpc = "next"
    /\ ji < jobCount
    /\ failed' = failed + 1
    /\ outcomes' = Append(outcomes, Outcome("failed", FALSE))
    /\ ji' = ji + 1
    /\ UNCHANGED <<jobCount, jpc, completed>>
    /\ UNCHANGED <<mergeVars, batchVars>>

\* createProvider throws.
JobProviderFail ==
    /\ jpc = "running"
    /\ mpc = "parsed"
    /\ mpc' = "failed"
    /\ UNCHANGED <<mode, mi, translatedSubtitles, returned, requests, rejected, delays, written>>
    /\ UNCHANGED batchVars
    /\ UNCHANGED jobsVars

\* Variant: the run ends at the first job that fails.
JobFailed_EndsRun ==
    /\ jpc = "running"
    /\ mpc = "failed"
    /\ failed' = failed + 1
    /\ outcomes' = Append(outcomes, Outcome("failed", TRUE))
    /\ ji' = ji + 1
    /\ jpc' = "summary"
    /\ JobLocalsReset
    /\ UNCHANGED <<jobCount, completed>>

\* The catch block of the job: failed++, then i++.
JobFailed ==
    /\ jpc = "running"
    /\ mpc = "failed"
    /\ failed' = failed + 1
    /\ outcomes' = Append(outcomes, Outcome("failed", TRUE))
    /\ ji' = ji + 1
    /\ jpc' = "next"
    /\ JobLocalsReset
    /\ UNCHANGED <<jobCount, completed>>

\* The output has been written: completed++, then i++.
JobCompleted ==
    /\ jpc = "running"
    /\ mpc = "written"
    /\ completed' = completed + 1
    /\ outcomes' = Append(outcomes, Outcome("completed", TRUE))
    /\ ji' = ji + 1
    /\ jpc' = "next"
    /\ JobLocalsReset
    /\ UNCHANGED <<jobCount, failed>>

\* The loop condition i < batchConfig.jobs.length is false: the summary.
JobsSummary ==
    /\ jpc = "next"
    /\ ji >= jobCount
    /\ jpc' = "summary"
    /\ UNCHANGED <<jobCount, ji, completed, failed, outcomes>>
    /\ UNCHANGED <<mergeVars, batchVars>>


----------------------------------------------------------------------------
(* The statistics of a provider: translateBatch runs fetchWithRetry with a *)
(* callback that counts the retries, then counts the call and the tokens   *)
(* of the response; getStats returns a copy, resetStats zeroes the six     *)
(* counters.                                                               *)

\* retryDelay = 1000
DefaultRetryDelay == 1000

Counters == {"totalTokens", "inputTokens", "outputTokens", "cachedTokens", "apiCalls", "retries"}

\* data.usage of a response: absent, or the tokens read and written.
NoUsage == [present |-> FALSE, input_tokens |-> 0, output_tokens |-> 0]

Usages == { NoUsage, [present |-> TRUE, input_tokens |-> 3, output_tokens |-> 2] }

\* No object has been returned by getStats. An object returned is a copy
\* (live is FALSE) and reads as its value.
NoSnapshot == [taken |-> FALSE, live |-> FALSE, value |-> ZeroStats]

SnapshotValue == IF snapshot.live THEN stats ELSE snapshot.value

StatsIdle ==
    /\ spc = "idle"
    /\ snapshot = NoSnapshot
    /\ statsAtCall = ZeroStats
    /\ attemptsMade = 0
    /\ lastUsage = NoUsage
    /\ lastOp = "none"

\* createAnthropicProvider has returned: every counter is zero. maxRetries is
\* the option given, retryDelay its default.
StatsInit ==
    /\ spc = "ready"
    /\ snapshot = NoSnapshot
    /\ statsAtCall = ZeroStats
    /\ attemptsMade = 0
    /\ lastUsage = NoUsage
    /\ lastOp = "none"
    /\ explicitProvider = "anthropic"
    /\ explicitKey = <<"s", "k", "-", "a", "n", "t", "-", "1">>
    /\ env = [v \in EnvVarNames |-> Undefined]
    /\ targetLang = <<"H", "i", "n", "d", "i">>
    /\ cpc = "constructed"
    /\ providerName = "anthropic"
    /\ apiKey = <<"s", "k", "-", "a", "n", "t", "-", "1">>
    /\ createError = <<>>
    /\ constructs = 1
    /\ netRequests = 0
    /\ stats = ZeroStats
    /\ tcalls = 0
    /\ tthrown = 0
    /\ maxRetries \in (-1)..MaxStatRetries
    /\ baseDelay = DefaultRetryDelay
    /\ rpc = "returned"
    /\ attempt = 1
    /\ lastError = UnknownError
    /\ calls = 0
    /\ retries = 0
    /\ sleeps = <<>>
    /\ thrown = <<>>
    /\ lastStatus = 0
    /\ allRetryable = TRUE
    /\ lastAttemptErr = <<>>

StatsProviderFixed ==
    <<ProviderInputs, cpc, providerName, apiKey, createError, constructs>>

\* translateBatch is entered and calls fetchWithRetry.
StatsCallStart ==
    /\ spc = "ready"
    /\ tcalls < MaxProviderCalls
    /\ tcalls' = tcalls + 1
    /\ spc' = "call"
    /\ statsAtCall' = stats
    /\ lastOp' = "call"
    /\ rpc' = "loop"
    /\ attempt' = 1
    /\ lastError' = UnknownError
    /\ calls' = 0
    /\ retries' = 0
    /\ sleeps' = <<>>
    /\ thrown' = <<>>
    /\ lastStatus' = 0
    /\ allRetryable' = TRUE
    /\ lastAttemptErr' = <<>>
    /\ UNCHANGED <<maxRetries, baseDelay>>
    /\ UNCHANGED <<StatsProviderFixed, netRequests, stats, tthrown>>
    /\ UNCHANGED <<snapshot, attemptsMade, lastUsage>>

\* A step of fetchWithRetry inside translateBatch. An attempt sends a
\* request; the callback of a retry is stats.retries++.
StatsRetryStep(step) ==
    /\ spc = "call"
    /\ step
    /\ netRequests' = netRequests + (calls' - calls)
    /\ stats' = [stats EXCEPT !.retries = @ + (retries' - retries)]
    /\ UNCHANGED <<StatsProviderFixed, tcalls, tthrown>>
    /\ UNCHANGED statVars

\* The state of fetchWithRetry when translateBatch has ended.
StatsRetryEnded ==
    /\ rpc' = "returned"
    /\ attempt' = 1
    /\ lastError' = UnknownError
    /\ calls' = 0
    /\ retries' = 0
    /\ sleeps' = <<>>
    /\ thrown' = <<>>
    /\ lastStatus' = 0
    /\ allRetryable' = TRUE
    /\ lastAttemptErr' = <<>>
    /\ UNCHANGED <<maxRetries, baseDelay>>

\* fetchWithRetry has returned data: stats.apiCalls++ and the tokens of
\* data.usage, if present, are added (a missing count adds 0).
StatsCallReturn ==
    /\ spc = "call"
    /\ rpc = "returned"
    /\ \E usage \in Usages :
        /\ lastUsage' = usage
        /\ stats' = IF usage.present
                    THEN [stats EXCEPT
                            !.apiCalls = @ + 1,
                            !.inputTokens = @ + usage.input_tokens,
                            !.outputTokens = @ + usage.output_tokens,
                            !.totalTokens = @ + usage.input_tokens + usage.output_tokens]
                    ELSE [stats EXCEPT !.apiCalls = @ + 1]
    /\ attemptsMade' = calls
    /\ lastOp' = "returned"
    /\ spc' = "ready"
    /\ StatsRetryEnded
    /\ UNCHANGED <<StatsProviderFixed, netRequests, tcalls, tthrown>>
    /\ UNCHANGED <<snapshot, statsAtCall>>

\* fetchWithRetry has thrown: translateBatch rejects.
StatsCallThrow ==
    /\ spc = "call"
    /\ rpc = "thrown"
    /\ tthrown' = tthrown + 1
    /\ attemptsMade' = calls
    /\ lastOp' = "thrown"
    /\ spc' = "ready"
    /\ StatsRetryEnded
    /\ UNCHANGED <<StatsProviderFixed, netRequests, tcalls, stats>>
    /\ UNCHANGED <<snapshot, statsAtCall, lastUsage>>

\* Variant: getStats returns the object that holds the counters.
GetStats_ReturnsLive ==
    /\ spc = "ready"
    /\ snapshot' = [taken |-> TRUE, live |-> TRUE, value |-> ZeroStats]
    /\ lastOp' = "getStats"
    /\ UNCHANGED <<spc, statsAtCall, attemptsMade, lastUsage>>
    /\ UNCHANGED <<provVars, retryVars>>

\* getStats: return { ...stats }
GetStats ==
    /\ spc = "ready"
    /\ snapshot' = [taken |-> TRUE, live |-> FALSE, value |-> stats]
    /\ lastOp' = "getStats"
    /\ UNCHANGED <<spc, statsAtCall, attemptsMade, lastUsage>>
    /\ UNCHANGED <<provVars, retryVars>>

\* resetStats: the six counters are set to 0.
ResetStats ==
    /\ spc = "ready"
    /\ stats' = ZeroStats
    /\ lastOp' = "resetStats"
    /\ UNCHANGED <<spc, snapshot, statsAtCall, attemptsMade, lastUsage>>
    /\ UNCHANGED <<StatsProviderFixed, netRequests, tcalls, tthrown>>
    /\ UNCHANGED retryVars

----------------------------------------------------------------------------
(* Specifications *)

BatchNext ==
    \/ BatchIter /\ UNCHANGED <<parseVars, retryVars, mergeVars, provVars, codecVars, jobsVars, statVars>>
    \/ BatchReturn /\ UNCHANGED <<parseVars, retryVars, mergeVars, provVars, codecVars, jobsVars, statVars>>

\* batchSubtitles on every bounded input
InitBatch == BatchInit /\ ParseIdle /\ RetryIdle /\ MergeIdle /\ ProviderIdle /\ StatsIdle
    /\ CodecIdle /\ JobsIdle

SpecBatch == InitBatch /\ [][BatchNext]_vars

ParseNext ==
    \/ ParseSplit /\ UNCHANGED <<batchVars, retryVars, mergeVars, provVars, codecVars, jobsVars, statVars>>
    \/ ParseLine /\ UNCHANGED <<batchVars, retryVars, mergeVars, provVars, codecVars, jobsVars, statVars>>
    \/ ParseLinesEnd /\ UNCHANGED <<batchVars, retryVars, mergeVars, provVars, codecVars, jobsVars, statVars>>
    \/ ParseFill /\ UNCHANGED <<batchVars, retryVars, mergeVars, provVars, codecVars, jobsVars, statVars>>

\* parseTranslations on every bounded batch and response
InitParse == BatchIdle /\ ParseInit /\ RetryIdle /\ MergeIdle /\ ProviderIdle /\ StatsIdle
    /\ CodecIdle /\ JobsIdle

SpecParse == InitParse /\ [][ParseNext]_vars

RetryNext ==
    \/ RetryCallOk /\ UNCHANGED <<batchVars, parseVars, mergeVars, provVars, codecVars, jobsVars, statVars>>
    \/ RetryCallFail /\ UNCHANGED <<batchVars, parseVars, mergeVars, provVars, codecVars, jobsVars, statVars>>
    \/ RetrySleepEnd /\ UNCHANGED <<batchVars, parseVars, mergeVars, provVars, codecVars, jobsVars, statVars>>
    \/ RetryLoopEnd /\ UNCHANGED <<batchVars, parseVars, mergeVars, provVars, codecVars, jobsVars, statVars>>
    \/ RetryThrow /\ UNCHANGED <<batchVars, parseVars, mergeVars, provVars, codecVars, jobsVars, statVars>>

\* fetchWithRetry with every outcome of every attempt
InitRetry == BatchIdle /\ ParseIdle /\ RetryInit /\ MergeIdle /\ ProviderIdle /\ StatsIdle
    /\ CodecIdle /\ JobsIdle

SpecRetry == InitRetry /\ [][RetryNext]_vars

OtherThanMerge == <<parseVars, retryVars, provVars, codecVars, jobsVars, statVars>>

MergeNext ==
    \/ MergeAfterParse /\ UNCHANGED OtherThanMerge
    \/ MergeBatching(BatchIter) /\ UNCHANGED OtherThanMerge
    \/ MergeBatching(BatchReturn) /\ UNCHANGED OtherThanMerge
    \/ MergeStartLoop /\ UNCHANGED OtherThanMerge
    \/ MergeCall /\ UNCHANGED OtherThanMerge
    \/ MergeResolve /\ UNCHANGED OtherThanMerge
    \/ MergeReject /\ UNCHANGED OtherThanMerge
    \/ MergeDelayEnd /\ UNCHANGED OtherThanMerge
    \/ MergeWrite /\ UNCHANGED OtherThanMerge
    \/ MergeWriteFail /\ UNCHANGED OtherThanMerge

\* the translation of one file, with every outcome of every translateBatch
InitMerge == MergeInit /\ ParseIdle /\ RetryIdle /\ ProviderIdle /\ StatsIdle
    /\ CodecIdle /\ JobsIdle

SpecMerge == InitMerge /\ [][MergeNext]_vars

OtherThanProvider == <<batchVars, parseVars, retryVars, mergeVars, codecVars, jobsVars, statVars>>

ProviderNext ==
    \/ CreateSelect /\ UNCHANGED OtherThanProvider
    \/ CreateValidate /\ UNCHANGED OtherThanProvider
    \/ CreateByName /\ UNCHANGED OtherThanProvider
    \/ WhisperTranslateBatch /\ UNCHANGED OtherThanProvider
    \/ RemoteTranslateBatch /\ UNCHANGED OtherThanProvider

\* createProvider on every combination of options and environment, and the
\* use of the provider it returns
InitProvider == BatchIdle /\ ParseIdle /\ RetryIdle /\ MergeIdle /\ ProviderInit /\ StatsIdle
    /\ CodecIdle /\ JobsIdle

SpecProvider == InitProvider /\ [][ProviderNext]_vars

OtherThanCodec == <<batchVars, parseVars, retryVars, mergeVars, provVars, jobsVars, statVars>>

CodecNext ==
    \/ CodecParse /\ UNCHANGED OtherThanCodec
    \/ CodecConvert /\ UNCHANGED OtherThanCodec
    \/ CodecSerialize /\ UNCHANGED OtherThanCodec

\* a file is parsed, its captions are serialized in a format and parsed again
InitCodec == BatchIdle /\ ParseIdle /\ RetryIdle /\ MergeIdle /\ ProviderIdle /\ StatsIdle
    /\ CodecInit /\ JobsIdle

SpecCodec == InitCodec /\ [][CodecNext]_vars

OtherThanJobs == <<parseVars, retryVars, provVars, codecVars, statVars>>

JobsNext ==
    \/ JobParsed /\ UNCHANGED OtherThanJobs
    \/ JobEarlyFail /\ UNCHANGED OtherThanJobs
    \/ JobProviderFail /\ UNCHANGED OtherThanJobs
    \/ MergeAfterParse /\ UNCHANGED <<OtherThanJobs, jobsVars, statVars>>
    \/ MergeBatching(BatchIter) /\ UNCHANGED <<OtherThanJobs, jobsVars, statVars>>
    \/ MergeBatching(BatchReturn) /\ UNCHANGED <<OtherThanJobs, jobsVars, statVars>>
    \/ MergeStartLoop /\ UNCHANGED <<OtherThanJobs, jobsVars, statVars>>
    \/ MergeCall /\ UNCHANGED <<OtherThanJobs, jobsVars, statVars>>
    \/ MergeResolve /\ UNCHANGED <<OtherThanJobs, jobsVars, statVars>>
    \/ MergeReject /\ UNCHANGED <<OtherThanJobs, jobsVars, statVars>>
    \/ MergeDelayEnd /\ UNCHANGED <<OtherThanJobs, jobsVars, statVars>>
    \/ MergeWrite /\ UNCHANGED <<OtherThanJobs, jobsVars, statVars>>
    \/ MergeWriteFail /\ UNCHANGED <<OtherThanJobs, jobsVars, statVars>>
    \/ JobFailed /\ UNCHANGED OtherThanJobs
    \/ JobCompleted /\ UNCHANGED OtherThanJobs
    \/ JobsSummary /\ UNCHANGED OtherThanJobs

\* a run of the batch command, with every outcome of every step of every job
InitJobs == JobsInit /\ ParseIdle /\ RetryIdle /\ ProviderIdle /\ CodecIdle /\ StatsIdle

SpecJobs == InitJobs /\ [][JobsNext]_vars

OtherThanStats == <<batchVars, parseVars, mergeVars, codecVars, jobsVars>>

StatsNext ==
    \/ StatsCallStart /\ UNCHANGED OtherThanStats
    \/ StatsRetryStep(RetryCallOk) /\ UNCHANGED OtherThanStats
    \/ StatsRetryStep(RetryCallFail) /\ UNCHANGED OtherThanStats
    \/ StatsRetryStep(RetrySleepEnd) /\ UNCHANGED OtherThanStats
    \/ StatsRetryStep(RetryLoopEnd) /\ UNCHANGED OtherThanStats
    \/ StatsRetryStep(RetryThrow) /\ UNCHANGED OtherThanStats
    \/ StatsCallReturn /\ UNCHANGED OtherThanStats
    \/ StatsCallThrow /\ UNCHANGED OtherThanStats
    \/ GetStats /\ UNCHANGED OtherThanStats
    \/ ResetStats /\ UNCHANGED OtherThanStats

\* a provider is used: translateBatch with every outcome of every attempt,
\* getStats and resetStats between the calls
InitStats == BatchIdle /\ ParseIdle /\ MergeIdle /\ CodecIdle /\ JobsIdle /\ StatsInit

SpecStats == InitStats /\ [][StatsNext]_vars

----------------------------------------------------------------------------
(* Properties of batchSubtitles, checked under SpecBatch *)

RECURSIVE Concat(_)
Concat(bs) == IF bs = <<>> THEN <<>> ELSE Head(bs) \o Concat(Tail(bs))

RECURSIVE TotalChars(_)
TotalChars(b) == IF b = <<>> THEN 0 ELSE Len(Head(b).text) + TotalChars(Tail(b))

\* C1: the batches returned by batchSubtitles, concatenated in order, are
\* exactly the input sequence: nothing dropped, duplicated or reordered.
C1_BatchesConcatToInput ==
    bpc = "done" => Concat(batches) = subtitles

\* Three captions were split into at least two batches.
C1_Witness ==
    /\ bpc = "done"
    /\ Len(subtitles) = 3
    /\ Len(batches) >= 2
    /\ Concat(batches) = subtitles

\* C2: no batch returned by batchSubtitles holds more than batchSize captions.
C2_NoBatchOverCount ==
    bpc = "done" => \A b \in 1..Len(batches) : Len(batches[b]) <= batchSize

\* A batch was closed because it was full, and more captions followed.
C2_Witness ==
    /\ bpc = "done"
    /\ batchSize = 2
    /\ Len(subtitles) = 3
    /\ TotalChars(subtitles) <= maxChars
    /\ Len(batches) = 2
    /\ Len(batches[1]) = batchSize

\* C3: only a batch of one caption has more than maxChars characters, and a
\* caption longer than maxChars is whole and alone in its batch.
C3_OverlongOnlyAlone ==
    bpc = "done" =>
        \A b \in 1..Len(batches) :
            /\ TotalChars(batches[b]) > maxChars => Len(batches[b]) = 1
            /\ \A k \in 1..Len(batches[b]) :
                  Len(batches[b][k].text) > maxChars => Len(batches[b]) = 1

\* An oversized caption between two others ended up alone in the middle batch.
C3_Witness ==
    /\ bpc = "done"
    /\ Len(subtitles) = 3
    /\ Len(batches) = 3
    /\ batches[2] = <<subtitles[2]>>
    /\ Len(subtitles[2].text) > maxChars
    /\ Len(subtitles[1].text) <= maxChars

----------------------------------------------------------------------------
(* Properties of parseTranslations, checked under SpecParse *)

\* The parser is at a step that can run (the enabling condition of ParseNext).
ParseCanStep ==
    \/ ppc = "split"
    \/ ppc = "lines" /\ lpos < Len(lines)
    \/ ppc = "lines" /\ lpos = Len(lines)
    \/ ppc = "fill"

\* C4: whatever the response text, the parser is never stuck before its end
\* and the list it returns is as long as the batch.
C4_ResultLengthEqualsBatch ==
    /\ ppc = "done" => Len(translatedLines) = Len(batch)
    /\ ppc # "done" => ParseCanStep

\* A response with more lines than the batch has captions, one of them with a
\* number outside the batch, was parsed.
C4_Witness ==
    /\ ppc = "done"
    /\ Len(batch) >= 1
    /\ Len(lines) > Len(batch)
    /\ \E k \in DOMAIN lineMap : k < 0 \/ k >= Len(batch)
    /\ Len(translatedLines) = Len(batch)

\* C5: a position the parser assigned no line to carries the source text of
\* its caption; a 2-caption batch answered "[1]a" gives <<"a", source 2>>.
C5_UnfilledFallsBackToSource ==
    ppc = "done" =>
        /\ \A i \in 1..Len(batch) :
              (i - 1) \notin DOMAIN lineMap => translatedLines[i] = batch[i].text
        /\ (Len(batch) = 2 /\ translatedText = <<"[", "1", "]", "a">>)
              => translatedLines = <<(<<"a">>), SrcText(2)>>

\* The 2-caption batch whose response holds entry [1] only.
C5_Witness ==
    /\ ppc = "done"
    /\ Len(batch) = 2
    /\ translatedText = <<"[", "1", "]", "a">>
    /\ DOMAIN lineMap = {0}
    /\ translatedLines[2] = SrcText(2)

\* The lowest position of the batch (0-based) that lineMap has not filled,
\* -1 when every position is filled.
LowestFree(m, n) ==
    IF \E p \in 0..(n - 1) : p \notin DOMAIN m
    THEN CHOOSE p \in 0..(n - 1) :
            p \notin DOMAIN m /\ \A q \in 0..(n - 1) : q \notin DOMAIN m => p <= q
    ELSE -1

\* C6: a non-empty response line that does not match '[n] text' is assigned
\* to the lowest position of the batch that no earlier line has filled.
C6_UnnumberedTakesLowestFree ==
    [][ (ppc = "lines" /\ lpos < Len(lines) /\ lpos' = lpos + 1) =>
          LET line == lines[lpos + 1]
              free == LowestFree(lineMap, Len(batch))
          IN  (~MatchLine(line).ok /\ Trim(line) # <<>> /\ free # -1)
                 => lineMap' = MapSet(lineMap, free, Trim(line)) ]_vars

AllNumbered == \A k \in 1..Len(lines) : MatchLine(lines[k]).ok

NumberOf(line) == ParseInt(MatchLine(line).g1)

HasLine(n) == \E k \in 1..Len(lines) : NumberOf(lines[k]) = n

\* The trimmed text of the last response line numbered n.
LastText(n) ==
    LET k == CHOOSE k \in 1..Len(lines) :
                 /\ NumberOf(lines[k]) = n
                 /\ \A j \in (k + 1)..Len(lines) : NumberOf(lines[j]) # n
    IN  Trim(MatchLine(lines[k]).g2)

\* C7 as stated: for a response of numbered lines only, position n-1 of the
\* result is the text of the (last) line numbered n.
C7_Original ==
    (ppc = "done" /\ AllNumbered) =>
        \A n \in 1..Len(batch) : HasLine(n) => translatedLines[n] = LastText(n)

\* C7 amended: for a response of numbered lines only, position n-1 of the
\* result is the trimmed text of the last line numbered n, unless that text
\* is blank, and then it is the source text of the caption.
C7_NumberedPlacedByNumber ==
    (ppc = "done" /\ AllNumbered) =>
        \A n \in 1..Len(batch) :
            HasLine(n) => translatedLines[n] =
                IF LastText(n) # <<>> THEN LastText(n) ELSE batch[n].text

\* Line [2] came before line [1] and each text went to its own position.
C7_Witness ==
    /\ ppc = "done"
    /\ Len(batch) = 2
    /\ Len(lines) = 2
    /\ AllNumbered
    /\ NumberOf(lines[1]) = 2
    /\ NumberOf(lines[2]) = 1
    /\ translatedLines = <<Trim(MatchLine(lines[2]).g2), Trim(MatchLine(lines[1]).g2)>>
    /\ translatedLines[1] # translatedLines[2]

----------------------------------------------------------------------------
(* Properties of fetchWithRetry, checked under SpecRetry *)

RetryableStatuses == {429, 500, 502, 503}

\* C8: with maxRetries >= 0 the operation is never invoked more than
\* maxRetries + 1 times; when every attempt failed with a retryable error it
\* was invoked exactly maxRetries + 1 times and the error of the last attempt
\* is thrown.
C8_ExactlyMaxRetriesPlusOne ==
    /\ maxRetries >= 0 => calls <= maxRetries + 1
    /\ (rpc = "thrown" /\ maxRetries >= 0 /\ allRetryable) =>
          /\ calls = maxRetries + 1
          /\ thrown = lastAttemptErr

\* maxRetries = 3 and four attempts that all failed with a retryable error.
C8_Witness ==
    /\ rpc = "thrown"
    /\ maxRetries = 3
    /\ allRetryable
    /\ calls = 4
    /\ lastStatus \in RetryableStatuses
    /\ thrown = lastAttemptErr

\* C9: once an attempt has failed with an error classified as not retryable,
\* fetchWithRetry only throws that error: no further attempt, no retry
\* callback and no sleep after it; if it was the first attempt, the operation
\* was invoked exactly once.
C9_NonRetryableStopsAtOnce ==
    (lastAttemptErr # <<>> /\ ~IsRetryable(lastAttemptErr)) =>
        /\ rpc \in {"exit", "thrown"}
        /\ retries = calls - 1
        /\ Len(sleeps) = calls - 1
        /\ lastError = lastAttemptErr
        /\ rpc = "thrown" => thrown = lastAttemptErr

\* With three retries allowed, the first attempt failed with a 400 and the
\* error was thrown after that single attempt.
C9_Witness ==
    /\ rpc = "thrown"
    /\ maxRetries = 3
    /\ calls = 1
    /\ lastStatus = 400
    /\ ~IsRetryable(lastAttemptErr)
    /\ retries = 0
    /\ sleeps = <<>>
    /\ thrown = lastAttemptErr

\* C10: a failed attempt that leaves retries to make is retried if and only
\* if its HTTP status is 429, 500, 502 or 503.
C10_RetriedIffRetryableStatus ==
    [][ (rpc = "loop" /\ calls' = calls + 1 /\ rpc' # "returned" /\ attempt <= maxRetries)
          => (rpc' = "sleep" <=> lastStatus' \in RetryableStatuses) ]_vars

----------------------------------------------------------------------------
(* Properties of the merge loop, checked under SpecMerge *)

\* Number of captions in the batches before batch b (1-based b).
RECURSIVE CaptionsBefore(_, _)
CaptionsBefore(bs, b) ==
    IF b <= 1 THEN 0 ELSE Len(bs[b - 1]) + CaptionsBefore(bs, b - 1)

\* Every batch has been translated and merged.
AllMerged == mpc \in {"loop", "written"} /\ mi = Len(batches)

\* C11: after the merge loop has processed all batches of a file, the output
\* sequence is as long as the input, the caption at each position is the
\* caption parsed at that position, and the j-th caption of batch b carries
\* the j-th string returned for batch b.
C11_MergedByOriginalPosition ==
    AllMerged =>
        /\ Len(translatedSubtitles) = Len(subtitles)
        /\ Len(returned) = Len(batches)
        /\ \A p \in 1..Len(subtitles) : translatedSubtitles[p].ref = subtitles[p].ref
        /\ \A b \in 1..Len(batches) : \A j \in 1..Len(batches[b]) :
              /\ CaptionsBefore(batches, b) + j \in 1..Len(translatedSubtitles)
              /\ translatedSubtitles[CaptionsBefore(batches, b) + j].text = returned[b][j]

\* C11 witness: five captions in batches of 2, 2 and 1 have been merged, the
\* second batch's second translation differing from the third batch's.
C11_Witness ==
    /\ AllMerged
    /\ Len(subtitles) = 5
    /\ Len(batches) = 3
    /\ Len(batches[1]) = 2 /\ Len(batches[2]) = 2 /\ Len(batches[3]) = 1
    /\ returned[2][2] # returned[3][1]
    /\ translatedSubtitles[4].text = returned[2][2]

\* C12: the merge changes only the text: at every moment the start and end
\* times of the output caption at every position are those of the parsed
\* caption at that position.
C12_TimingUntouched ==
    \A p \in 1..Len(translatedSubtitles) :
        /\ translatedSubtitles[p].startTime = subtitles[p].startTime
        /\ translatedSubtitles[p].endTime = subtitles[p].endTime

\* C12 witness: two batches have been merged and a third is still to come;
\* the merged captions have a new text.
C12_Witness ==
    /\ mpc = "loop"
    /\ mi = 2
    /\ Len(batches) = 3
    /\ \A p \in 1..Len(batches[1]) : translatedSubtitles[p].text # subtitles[p].text

\* C13: when translateBatch has failed for a batch, the file has failed: no
\* batch after the failed one is requested and nothing is written; a written
\* output means every batch was requested once and returned.
C13_BatchFailureFailsFile ==
    /\ rejected > 0 =>
          /\ mpc = "failed"
          /\ written = NoOutput
          /\ requests = Len(returned) + 1
          /\ rejected = 1
    /\ written # NoOutput =>
          /\ rejected = 0
          /\ requests = Len(batches)
          /\ Len(returned) = Len(batches)

\* C13 witness: the second of three batches failed after the first was merged.
C13_Witness ==
    /\ rejected = 1
    /\ Len(batches) = 3
    /\ Len(returned) = 1
    /\ mpc = "failed"

----------------------------------------------------------------------------
(* Properties of createProvider and of the Whisper provider, checked under *)
(* SpecProvider                                                            *)

\* createProvider has determined the provider.
Selected == cpc \in {"selected", "validated", "constructed", "error"}

\* An API key was given: the option holds a non-empty string.
KeyGiven == explicitKey # Undefined /\ explicitKey # <<>>

\* The value of the provider's own environment variable (Whisper has none).
OwnVariable(p) ==
    IF p = "whisper" THEN Undefined ELSE env[PROVIDERS[p].envVar]

\* C14: when a provider name is given, that provider is selected whatever the
\* key prefix and the environment; its key is the explicit key when one is
\* given, otherwise the value of the provider's own environment variable.
C14_ExplicitProviderWins ==
    (Selected /\ explicitProvider # NoProvider) =>
        /\ providerName = explicitProvider
        /\ apiKey = IF KeyGiven THEN explicitKey ELSE OwnVariable(explicitProvider)

\* C14 witness: gemini is named, the key given has the Kimi prefix and
\* OPENAI_API_KEY is set; gemini is selected with the given key.
C14_Witness ==
    /\ Selected
    /\ explicitProvider = "gemini"
    /\ explicitKey = <<"s", "k", "-", "k", "i", "m", "i", "-", "1">>
    /\ Truthy(env[<<"O", "P", "E", "N", "A", "I", "_", "A", "P", "I", "_", "K", "E", "Y">>])
    /\ providerName = "gemini"

\* The provider of a key prefix.
ProviderOfPrefix(key) ==
    IF StartsWith(key, <<"s", "k", "-", "k", "i", "m", "i", "-">>) THEN "kimi"
    ELSE IF StartsWith(key, <<"s", "k", "-", "a", "n", "t", "-">>) THEN "anthropic"
    ELSE IF StartsWith(key, <<"s", "k", "-">>) THEN "openai"
    ELSE IF StartsWith(key, <<"A", "I", "z", "a">>) THEN "gemini"
    ELSE "openai"

\* C15: when a key but no provider name is given, the provider is the one of
\* the key prefix (openai for an unrecognised prefix) and the key is the
\* given key, whatever the environment.
C15_ProviderFromKeyPrefix ==
    (Selected /\ explicitProvider = NoProvider /\ KeyGiven) =>
        /\ providerName = ProviderOfPrefix(explicitKey)
        /\ apiKey = explicitKey

\* C15 witness: a key with the Kimi prefix is given alone while
\* OPENAI_API_KEY is set; kimi is selected.
C15_Witness ==
    /\ Selected
    /\ explicitProvider = NoProvider
    /\ explicitKey = <<"s", "k", "-", "k", "i", "m", "i", "-", "1">>
    /\ Truthy(env[<<"O", "P", "E", "N", "A", "I", "_", "A", "P", "I", "_", "K", "E", "Y">>])
    /\ providerName = "kimi"

\* A variable is set: it holds a non-empty string.
IsSet(v) == env[v] # Undefined /\ env[v] # <<>>

\* C16: when neither a provider name nor a key is given, the provider is that
\* of the first variable set among OPENAI_API_KEY, ANTHROPIC_API_KEY,
\* GEMINI_API_KEY, KIMI_API_KEY, with its value as key; Whisper when none is set.
C16_FirstSetVariableWins ==
    (Selected /\ explicitProvider = NoProvider /\ ~KeyGiven) =>
        IF IsSet(<<"O", "P", "E", "N", "A", "I", "_", "A", "P", "I", "_", "K", "E", "Y">>)
        THEN providerName = "openai" /\ apiKey = env[<<"O", "P", "E", "N", "A", "I", "_", "A",
            "P", "I", "_", "K", "E", "Y">>]
        ELSE IF IsSet(<<"A", "N", "T", "H", "R", "O", "P", "I", "C", "_", "A", "P", "I", "_",
            "K", "E", "Y">>)
        THEN providerName = "anthropic" /\ apiKey = env[<<"A", "N", "T", "H", "R", "O", "P",
            "I", "C", "_", "A", "P", "I", "_", "K", "E", "Y">>]
        ELSE IF IsSet(<<"G", "E", "M", "I", "N", "I", "_", "A", "P", "I", "_", "K", "E", "Y">>)
        THEN providerName = "gemini" /\ apiKey = env[<<"G", "E", "M", "I", "N", "I", "_", "A",
            "P", "I", "_", "K", "E", "Y">>]
        ELSE IF IsSet(<<"K", "I", "M", "I", "_", "A", "P", "I", "_", "K", "E", "Y">>)
        THEN providerName = "kimi" /\ apiKey = env[<<"K", "I", "M", "I", "_", "A", "P", "I",
            "_", "K", "E", "Y">>]
        ELSE providerName = "whisper" /\ apiKey = Undefined

\* C16 witness: with no option given, ANTHROPIC_API_KEY and KIMI_API_KEY are
\* set and OPENAI_API_KEY is not; anthropic is selected.
C16_Witness ==
    /\ Selected
    /\ explicitProvider = NoProvider
    /\ explicitKey = Undefined
    /\ env[<<"O", "P", "E", "N", "A", "I", "_", "A", "P", "I", "_", "K", "E", "Y">>] = Undefined
    /\ IsSet(<<"A", "N", "T", "H", "R", "O", "P", "I", "C", "_", "A", "P", "I", "_", "K", "E",
        "Y">>)
    /\ IsSet(<<"K", "I", "M", "I", "_", "A", "P", "I", "_", "K", "E", "Y">>)
    /\ providerName = "anthropic"

\* createProvider is past its validation.
Validated == cpc \in {"validated", "constructed", "error"}

\* C17: when the selected provider requires a key and none was resolved,
\* createProvider has raised an error whose message names the provider's
\* environment variable; no provider was constructed and no request made.
C17_MissingKeyIsConfigurationError ==
    (Validated /\ providerName # "whisper" /\ (apiKey = Undefined \/ apiKey = <<>>)) =>
        /\ cpc = "error"
        /\ Includes(createError, PROVIDERS[providerName].envVar)
        /\ constructs = 0
        /\ netRequests = 0
        /\ tcalls = 0

\* C17 witness: gemini was named with no key and GEMINI_API_KEY unset while
\* OPENAI_API_KEY is set; the error names GEMINI_API_KEY.
C17_Witness ==
    /\ cpc = "error"
    /\ explicitProvider = "gemini"
    /\ env[<<"G", "E", "M", "I", "N", "I", "_", "A", "P", "I", "_", "K", "E", "Y">>] = Undefined
    /\ Truthy(env[<<"O", "P", "E", "N", "A", "I", "_", "A", "P", "I", "_", "K", "E", "Y">>])
    /\ Includes(createError, <<"G", "E", "M", "I", "N", "I", "_", "A", "P", "I", "_", "K",
        "E", "Y">>)
    /\ ~Includes(createError, <<"O", "P", "E", "N", "A", "I", "_", "A", "P", "I", "_", "K",
        "E", "Y">>)

\* The target languages that are English, whatever the case.
EnglishTargets == { <<"E", "n", "g", "l", "i", "s", "h">>, <<"e", "n">>, <<"E", "N">> }

----------------------------------------------------------------------------
(* Properties of serialize and parse, checked under SpecCodec *)

\* The milliseconds of a timestamp HH:MM:SS,mmm.
Millis(t) ==
    ParseInt(SubSeq(t, 1, 2)) * 3600000 + ParseInt(SubSeq(t, 4, 5)) * 60000
    + ParseInt(SubSeq(t, 7, 8)) * 1000 + ParseInt(SubSeq(t, 10, 12))

\* Two timestamps are equal up to the precision of a format.
SameTime(t, u, fmt) ==
    IF fmt = "ass" THEN Millis(t) \div 10 = Millis(u) \div 10 ELSE Millis(t) = Millis(u)

\* The captions of a file have been serialized and parsed again.
RoundTripDone == kpc = "parsed" /\ fromSerialize

\* C19: parse(serialize(captions, f), f) is as long as captions and each of
\* its captions has the start and end times of the original one, up to the
\* precision of f (milliseconds for SRT and VTT, centiseconds for ASS).
C19_RoundTripKeepsLengthAndTiming ==
    RoundTripDone =>
        /\ Len(parsed) = Len(captions)
        /\ \A i \in 1..Len(parsed) :
              /\ SameTime(parsed[i].startTime, captions[i].startTime, format)
              /\ SameTime(parsed[i].endTime, captions[i].endTime, format)

\* C20: for every format, the k-th caption that parse returns has index k,
\* whatever numbers or identifiers the file holds and whatever blocks were
\* skipped.
C20_IndexIsParseOrder ==
    kpc = "parsed" => \A k \in 1..Len(parsed) : parsed[k].index = k

----------------------------------------------------------------------------
(* Further properties of the merge loop, checked under SpecMerge *)

\* Requests issued and not yet answered.
Outstanding == requests - Len(returned) - rejected

\* C25: within one file the requests are sequential and in batch order: at
\* most one is outstanding; the request for a batch is issued only when every
\* earlier batch has been merged and the delay after it has ended; one delay
\* follows each batch but the last (n batches, n - 1 delays).
C25_SequentialBatchesWithDelays ==
    /\ Outstanding \in {0, 1}
    /\ Outstanding = 1 <=> mpc = "await"
    /\ mpc = "await" => mi = requests - 1 /\ Len(returned) = mi /\ delays = mi
    /\ mpc = "delay" => delays = Len(returned) /\ requests = Len(returned)
    /\ delays <= Len(returned)
    /\ AllMerged => delays = (IF Len(batches) = 0 THEN 0 ELSE Len(batches) - 1)

\* C25 witness: three batches have been merged after two delays.
C25_Witness ==
    /\ AllMerged
    /\ Len(batches) = 3
    /\ requests = 3
    /\ delays = 2

----------------------------------------------------------------------------
(* Further properties of fetchWithRetry, checked under SpecRetry *)

\* C23: the sleep after the k-th failed attempt lasts baseDelay * 2^(k-1);
\* while it lasts the retry callback has fired k times and attempt k + 1 has
\* not started; an attempt starts only when every earlier sleep has ended;
\* no sleep follows the attempt that ends the call.
C23_ExponentialBackoffBetweenAttempts ==
    /\ \A k \in 1..Len(sleeps) : sleeps[k] = baseDelay * (2 ^ (k - 1))
    /\ rpc = "sleep" => Len(sleeps) = attempt /\ calls = attempt /\ retries = attempt
    /\ rpc = "loop" => Len(sleeps) = attempt - 1 /\ calls = attempt - 1
    /\ (rpc \in {"exit", "thrown", "returned"} /\ calls >= 1) =>
           Len(sleeps) = calls - 1 /\ retries = calls - 1

\* C23 witness: the fourth attempt has ended the call after three sleeps of
\* baseDelay, 2 * baseDelay and 4 * baseDelay.
C23_Witness ==
    /\ rpc = "thrown"
    /\ calls = 4
    /\ baseDelay = 1000
    /\ sleeps = <<1000, 2000, 4000>>

\* C30: whatever maxRetries is, the operation has been invoked at least once
\* when fetchWithRetry raises, and the error raised is the one of its last
\* attempt.
C30_RaisesAnAttemptError ==
    rpc = "thrown" => calls >= 1 /\ thrown = lastAttemptErr

----------------------------------------------------------------------------
(* Further properties of the parsers, checked under SpecCodec *)

\* A block of at least three non-blank lines, the first starting with a
\* digit, the second a timestamp line.
SrtWellFormed(block) ==
    LET ls == NonBlank(block)
    IN  /\ Len(ls) >= 3
        /\ TrimStart(ls[1]) # <<>> /\ IsDigit(TrimStart(ls[1])[1])
        /\ TimingMatch(ls[2], {",", "."}, FALSE).ok

\* C22: parseSRT returns one caption for each well-formed block of the file,
\* in the order of the file, with the text and the times of that block;
\* the other blocks yield nothing and end nothing.
C22_MalformedBlocksAreSkipped ==
    (format = "srt" /\ kpc = "parsed") =>
        LET good == SelectSeq(Blocks(content), SrtWellFormed)
        IN  /\ Len(parsed) = Len(good)
            /\ \A i \in 1..Len(good) :
                   LET ls == NonBlank(good[i])
                   IN  /\ parsed[i].text = Join(SubSeq(ls, 3, Len(ls)))
                       /\ parsed[i].startTime =
                              ReplaceFirst(SubSeq(ls[2], 1, 12), ".", <<",">>)
                       /\ parsed[i].endTime =
                              ReplaceFirst(SubSeq(ls[2], Len(ls[2]) - 11, Len(ls[2])), ".",
                                           <<",">>)

\* C22 witness: a file of three blocks, the second malformed, has been parsed
\* to the captions of the first and the third.
C22_Witness ==
    /\ format = "srt" /\ kpc = "parsed" /\ ~fromSerialize
    /\ Len(Blocks(content)) = 3
    /\ SrtWellFormed(Blocks(content)[1])
    /\ ~SrtWellFormed(Blocks(content)[2])
    /\ SrtWellFormed(Blocks(content)[3])
    /\ Len(parsed) = 2

IsEventsHeader(l) == Trim(l) = <<"[", "E", "v", "e", "n", "t", "s", "]">>

IsOtherHeader(l) == ~IsEventsHeader(l) /\ StartsWith(l, <<"[">>) /\ EndsWith(l, <<"]">>)

IsDialogueLine(l) == StartsWith(l, <<"D", "i", "a", "l", "o", "g", "u", "e",
    ":">>) /\ ~IsOtherHeader(l) /\ ~IsEventsHeader(l)

\* Line k comes after an [Events] header with no other header in between.
InEventMode(ls, k) ==
    \E j \in 1..(k - 1) :
        /\ IsEventsHeader(ls[j])
        /\ \A q \in (j + 1)..(k - 1) : ~IsOtherHeader(ls[q])

\* Line k is a Format line read in event mode.
IsEventsFormat(ls, k) ==
    /\ StartsWith(ls[k], <<"F", "o", "r", "m", "a", "t", ":">>)
    /\ ~IsOtherHeader(ls[k]) /\ ~IsEventsHeader(ls[k])
    /\ InEventMode(ls, k)

\* The columns named by the last Format line read in event mode before
\* line k, none if there is no such line.
FormatInForce(ls, k) ==
    LET fs == { j \in 1..(k - 1) : IsEventsFormat(ls, j) }
    IN  IF fs = {} THEN <<>>
        ELSE LET j == CHOOSE j \in fs : \A q \in fs : q <= j
                 names == SplitChar(SubSeq(ls[j], 8, Len(ls[j])), ",")
             IN  [f \in 1..Len(names) |-> ToLowerCase(Trim(names[f]))]

\* The Dialogue lines read in event mode whose columns in force give a
\* start, an end and a text.
YieldingLines(ls) ==
    { k \in 1..Len(ls) :
        /\ IsDialogueLine(ls[k])
        /\ InEventMode(ls, k)
        /\ AssDialogueCaption(ls[k], FormatInForce(ls, k), 0) # <<>> }

\* C27: the captions of parseASS are those of the Dialogue lines in event
\* mode, each read with the columns of the last Format line of event mode
\* before it, in file order; no other line yields or shapes a caption.
C27_DialogueOnlyInEventsWithItsFormat ==
    (format = "ass" /\ kpc = "parsed") =>
        LET ys == YieldingLines(content)
        IN  /\ Len(parsed) = Cardinality(ys)
            /\ \A k \in ys :
                   LET i == Cardinality({ j \in ys : j < k })
                   IN  parsed[i + 1] =
                           AssDialogueCaption(content[k], FormatInForce(content, k), i)[1]

\* C27 witness: a file with a Dialogue line before the Format line, one after
\* it and one after the header of another section has been parsed to one
\* caption.
C27_Witness ==
    /\ format = "ass" /\ kpc = "parsed" /\ ~fromSerialize
    /\ Len(parsed) = 1
    /\ \E k \in 1..Len(content) :
           /\ IsDialogueLine(content[k]) /\ InEventMode(content, k)
           /\ FormatInForce(content, k) = <<>>
    /\ \E k \in 1..Len(content) : IsDialogueLine(content[k]) /\ ~InEventMode(content, k)

\* The value of a named column of a Dialogue line, trimmed.
AssValue(line, fields, name) ==
    LET values == SplitChar(SubSeq(line, 10, Len(line)), ",")
        i == FieldIndex(fields, name)
    IN  IF i + 1 \in 1..Len(values) THEN Trim(values[i + 1]) ELSE <<>>

\* H:MM:SS.cc
WellFormedAssTime(t) == t # <<>> /\ IsAssClockAt(t, 1) /\ DigitsEnd(t, 1) + 8 = Len(t)

\* C29: a Dialogue line yields a caption only if its Start and its End are
\* well-formed timestamps: parseASS returns as many captions as there are
\* such lines among those that can yield one.
C29_MalformedTimeDropsDialogue ==
    (format = "ass" /\ kpc = "parsed") =>
        Len(parsed) =
            Cardinality({ k \in YieldingLines(content) :
                /\ WellFormedAssTime(AssValue(content[k], FormatInForce(content, k), <<"s",
                    "t", "a", "r", "t">>))
                /\ WellFormedAssTime(AssValue(content[k], FormatInForce(content, k), <<"e",
                    "n", "d">>)) })

----------------------------------------------------------------------------
(* Properties of the batch command, checked under SpecJobs *)

\* C21: a job whose file was parsed to no caption has ended as failed, with
\* no request sent to the provider and no file written.
C21_ZeroCaptionsIsFailure ==
    \A k \in 1..Len(outcomes) :
        outcomes[k].empty =>
            /\ outcomes[k].result = "failed"
            /\ ~outcomes[k].sent
            /\ ~outcomes[k].wrote

\* C26: the jobs are attempted in list order whatever became of the earlier
\* ones, each is counted once, as completed or as failed, and the summary is
\* reached with completed + failed equal to the number of jobs.
C26_EveryJobIsAttemptedAndCounted ==
    /\ ji <= jobCount
    /\ Len(outcomes) = ji
    /\ \A k \in 1..Len(outcomes) : outcomes[k].job = k - 1
    /\ completed = Cardinality({ k \in 1..Len(outcomes) : outcomes[k].result = "completed" })
    /\ failed = Cardinality({ k \in 1..Len(outcomes) : outcomes[k].result = "failed" })
    /\ completed + failed = ji
    /\ jpc = "summary" => ji = jobCount /\ completed + failed = jobCount

\* C26 witness: the summary of a run of two jobs, the first failed while its
\* batches were translated, the second completed.
C26_Witness ==
    /\ jpc = "summary"
    /\ jobCount = 2
    /\ outcomes[1].result = "failed" /\ outcomes[1].sent
    /\ outcomes[2].result = "completed" /\ outcomes[2].sent
    /\ completed = 1 /\ failed = 1

----------------------------------------------------------------------------
(* Properties of the statistics of a provider, checked under SpecStats *)

\* C24: when a translateBatch call has ended after a attempts, retries has
\* grown by a - 1; apiCalls has grown by 1 and the token counters by the
\* usage of the response if the call returned; apiCalls and the token
\* counters are as they were if it threw.
C24_CountersAfterACall ==
    lastOp \in {"returned", "thrown"} =>
        /\ stats.retries = statsAtCall.retries + attemptsMade - 1
        /\ stats.cachedTokens = statsAtCall.cachedTokens
        /\ lastOp = "returned" =>
              /\ stats.apiCalls = statsAtCall.apiCalls + 1
              /\ stats.inputTokens = statsAtCall.inputTokens + lastUsage.input_tokens
              /\ stats.outputTokens = statsAtCall.outputTokens + lastUsage.output_tokens
              /\ stats.totalTokens = statsAtCall.totalTokens + lastUsage.input_tokens
                                         + lastUsage.output_tokens
        /\ lastOp = "thrown" =>
              /\ stats.apiCalls = statsAtCall.apiCalls
              /\ stats.inputTokens = statsAtCall.inputTokens
              /\ stats.outputTokens = statsAtCall.outputTokens
              /\ stats.totalTokens = statsAtCall.totalTokens

\* What a step may do to the counters and to the object getStats returned.
StatsStep ==
    /\ lastOp' # "resetStats" => \A c \in Counters : stats'[c] >= stats[c]
    /\ lastOp' = "resetStats" => stats' = ZeroStats
    /\ lastOp' = "getStats" => stats' = stats /\ SnapshotValue' = stats
    /\ (lastOp' # "getStats" /\ snapshot.taken) => SnapshotValue' = SnapshotValue

\* C28: no step but resetStats lowers a counter; resetStats sets the six
\* counters to zero; getStats leaves them as they are and returns their
\* values, and what it returned reads the same after every later step.
C28_CountersFallOnlyByReset == [][StatsStep]_vars

\* C28 witness: the counters have been reset after a call that was retried
\* and a getStats, whose snapshot still shows the call.
C28_Witness ==
    /\ lastOp = "resetStats"
    /\ stats = ZeroStats
    /\ snapshot.taken
    /\ SnapshotValue.apiCalls = 1
    /\ SnapshotValue.retries = 1
    /\ SnapshotValue.totalTokens = 5

====
